---------------------------- MODULE Spec2Model ----------------------------
(***************************************************************************)
(* Book API: the single-flight job guards of the HTTP routes               *)
(* (routes/public/scrapper.py, routes/private/scrapper.py,                 *)
(* routes/public/data_process.py) and the scrape run they start            *)
(* (scripts/scrapper_lib.py: scrape_all_categories, get_books).            *)
(*                                                                         *)
(* Execution model of the routes.  Every handler is an `async def` that    *)
(* runs on the one event loop of the process: a coroutine that has the     *)
(* loop keeps it until it awaits or ends.  A background task added with    *)
(* BackgroundTasks.add_task is a plain `def`: it runs after the response   *)
(* of its request, on a worker thread, and interleaves freely with the     *)
(* loop.  Specification Spec is this part.                                 *)
(*                                                                         *)
(* Specification SpecCrawl is one call of scrape_all_categories against a  *)
(* site that answers each request as it likes (a page loads or fails, has  *)
(* some cards, has a "next" link or not).                                  *)
(***************************************************************************)
EXTENDS Integers, Sequences, FiniteSets

VARIABLES
    _scrapper_state,  \* routes/public/scrapper.py: {"is_running", "last_result"}
    _lock,            \* routes/public/scrapper.py: the request holding _lock, 0 if free
    scrapper_state,   \* routes/private/scrapper.py: {"is_running", "last_result"}
    pipeline_state,   \* routes/public/data_process.py: {"is_running"}
    reqs,             \* the HTTP requests received: route, position in the handler, response
    loop,             \* the request whose coroutine has the event loop, 0 if none
    tasks,            \* the background tasks added, in order: job, owner request, position
    \* scripts/scrapper_lib.py, one call of scrape_all_categories:
    max_categories,   \* parameter: None or <<K>>
    save_master_csv,  \* parameter
    cpc,              \* position in scrape_all_categories / get_books
    categories,       \* scrape_all_categories: categories (after the slice), in discovery order
    idx,              \* scrape_all_categories: index of the category of the for loop
    page,             \* get_books: page_url, as the position of the page in the category's chain
    parser,           \* get_books: the listing page loaded last (heading, cards, "next" link)
    card,             \* get_books: position of the next card of book_nodes
    a_tag,            \* get_books: local a_tag
    books_data,       \* get_books: books_data
    books,            \* scrape_all_categories: books
    results,          \* scrape_all_categories: results
    total_books,      \* scrape_all_categories: total_books
    csv_master,       \* the master CSV file: None or <<rows>>
    summary,          \* what scrape_all_categories returned: None or <<summary>>
    log,              \* history: the requests and sleeps of the run, in order
    served,           \* history: the cards of the current category, with what the site answered
    produced,         \* history: per category crawled, how get_books ended and its books_data
    cards_seen,       \* history: the number of cards the site has served in this run
    \* scripts/scrapper_lib.py, one call of a function without side effect:
    call,             \* the function called and its arguments
    ret,              \* what the call returned: None or <<value>>
    \* scripts/scrapper_lib.py, load_product_page_with_cache:
    cache_dir,        \* the files of the cache directory: key -> None or <<text>>
    loaded,           \* history: the calls of load_product_page_with_cache, in order
    \* scripts/scrapper_lib.py, one session.get of load_page:
    retry,            \* the Retry object of the request being sent: its counters
    attempts,         \* history: how each request sent for this session.get ended
    \* scripts/scrapper_lib.py, save_books_to_csv_master:
    out_path,         \* the file at out_path: None or <<header and rows>>
    \* scripts/book_statistics.py:
    DATASET_PATH,     \* the file books_processed.csv: None or <<rows>>
    lru_cache         \* the cache of _load_books_dataframe: None or <<dataframe>>

guardVars == <<_scrapper_state, _lock, scrapper_state, pipeline_state, reqs, loop, tasks>>

crawlVars == <<max_categories, save_master_csv, cpc, categories, idx, page, parser, card,
               a_tag, books_data, books, results, total_books, csv_master, summary,
               log, served, produced, cards_seen>>

libVars == <<call, ret, cache_dir, loaded, retry, attempts, out_path, DATASET_PATH, lru_cache>>

-----------------------------------------------------------------------------
(* Bounds of the model. *)

\* Requests received in one behaviour.
MaxReq == 3

\* Distinct run summaries a scrape may return (summary.total_books in 0..MaxSummary).
MaxSummary == 1

-----------------------------------------------------------------------------
(* Values. *)

\* Python's None for last_result.
NoResult == [status |-> "none"]

\* The exceptions a scrape run is seen to raise (type name, as in f"{type(e).__name__}: {e}").
ScrapeErrors == {"HTTPError", "ConnectionError"}

\* The summaries scrape_all_categories may return, by their total_books.
Summaries == 0..MaxSummary

PubTrigger  == "POST /api/v1/scrapper"
PubStatus   == "GET /api/v1/scrapper/status (public)"
PrivTrigger == "PUT /api/v1/scrapper"
PrivStatus  == "GET /api/v1/scrapper/status (private)"
EtlTrigger  == "POST /api/v1/data-process"

Routes == {PubTrigger, PubStatus, PrivTrigger, PrivStatus, EtlTrigger}

NoResp == [code |-> 0]

\* A response of a trigger route: 202 Accepted or 409 Conflict.
TrigResp(c) == [code |-> c]

\* A response of a status route.
StatusResp(running, result) == [code |-> 200, is_running |-> running, last_result |-> result]

ReqIds  == 1..Len(reqs)
TaskIds == 1..Len(tasks)

\* A coroutine may take a step when it has the loop, or when the loop is idle
\* (it is then started, or resumed after an await).
CanRun(r) == loop \in {0, r}

SetReq(r, pc, resp) == [reqs EXCEPT ![r] = [route |-> reqs[r].route, pc |-> pc, resp |-> resp]]

At(r, route, pc) == r \in ReqIds /\ reqs[r].route = route /\ reqs[r].pc = pc /\ CanRun(r)

NewTask(job, r) == [job |-> job, owner |-> r, pc |-> "scheduled", outcome |-> NoResult]

\* BackgroundTasks.add_task(f): f is queued on the response being built.
add_task(job, r) == Append(tasks, NewTask(job, r))

-----------------------------------------------------------------------------
(* The environment: a request arrives.  The event loop itself accepts the    *)
(* request and creates its coroutine, so this happens between coroutines.   *)

Arrive(route) ==
    /\ Len(reqs) < MaxReq
    /\ loop = 0
    /\ reqs' = Append(reqs, [route |-> route, pc |-> "pending", resp |-> NoResp])
    /\ UNCHANGED <<_scrapper_state, _lock, scrapper_state, pipeline_state, loop, tasks, crawlVars, libVars>>

-----------------------------------------------------------------------------
(* routes/public/scrapper.py *)

\* line 19: with _lock (threading.Lock: blocks while another holder has it)
PubTrigLock(r) ==
    /\ At(r, PubTrigger, "pending")
    /\ _lock = 0
    /\ _lock' = r
    /\ loop' = r
    /\ reqs' = SetReq(r, "check", NoResp)
    /\ UNCHANGED <<_scrapper_state, scrapper_state, pipeline_state, tasks, crawlVars, libVars>>

\* Mutant: the prior result is cleared before the flag is tested.
PubTrigCheck_ClearsResult(r) ==
    /\ At(r, PubTrigger, "check")
    /\ _scrapper_state' = [_scrapper_state EXCEPT !.last_result = NoResult]
    /\ IF _scrapper_state.is_running
       THEN /\ _lock' = 0
            /\ loop' = 0
            /\ reqs' = SetReq(r, "done", TrigResp(409))
       ELSE /\ _lock' = _lock
            /\ loop' = r
            /\ reqs' = SetReq(r, "set_running", NoResp)
    /\ UNCHANGED <<scrapper_state, pipeline_state, tasks, crawlVars, libVars>>

\* lines 20-24: if is_running: raise HTTPException(409); the with block releases _lock
PubTrigCheck(r) ==
    /\ At(r, PubTrigger, "check")
    /\ IF _scrapper_state.is_running
       THEN /\ _lock' = 0
            /\ loop' = 0
            /\ reqs' = SetReq(r, "done", TrigResp(409))
       ELSE /\ _lock' = _lock
            /\ loop' = r
            /\ reqs' = SetReq(r, "set_running", NoResp)
    /\ UNCHANGED <<_scrapper_state, scrapper_state, pipeline_state, tasks, crawlVars, libVars>>

\* Mutant: the accepting branch forgets to set the flag.
PubTrigSetRunning_Omitted(r) ==
    /\ At(r, PubTrigger, "set_running")
    /\ loop' = r
    /\ reqs' = SetReq(r, "clear_result", NoResp)
    /\ UNCHANGED <<_scrapper_state, _lock, scrapper_state, pipeline_state, tasks, crawlVars, libVars>>

\* line 25: _scrapper_state["is_running"] = True
PubTrigSetRunning(r) ==
    /\ At(r, PubTrigger, "set_running")
    /\ _scrapper_state' = [_scrapper_state EXCEPT !.is_running = TRUE]
    /\ loop' = r
    /\ reqs' = SetReq(r, "clear_result", NoResp)
    /\ UNCHANGED <<_lock, scrapper_state, pipeline_state, tasks, crawlVars, libVars>>

\* Mutant: the prior result is left in place.
PubTrigClearResult_Omitted(r) ==
    /\ At(r, PubTrigger, "clear_result")
    /\ _lock' = 0
    /\ loop' = r
    /\ reqs' = SetReq(r, "add_task", NoResp)
    /\ UNCHANGED <<_scrapper_state, scrapper_state, pipeline_state, tasks, crawlVars, libVars>>

\* line 26: _scrapper_state["last_result"] = None; the with block ends: _lock released
PubTrigClearResult(r) ==
    /\ At(r, PubTrigger, "clear_result")
    /\ _scrapper_state' = [_scrapper_state EXCEPT !.last_result = NoResult]
    /\ _lock' = 0
    /\ loop' = r
    /\ reqs' = SetReq(r, "add_task", NoResp)
    /\ UNCHANGED <<scrapper_state, pipeline_state, tasks, crawlVars, libVars>>

\* line 28: background_tasks.add_task(_run_scrapper_task)
PubTrigAddTask(r) ==
    /\ At(r, PubTrigger, "add_task")
    /\ tasks' = add_task("pub", r)
    /\ loop' = r
    /\ reqs' = SetReq(r, "respond", NoResp)
    /\ UNCHANGED <<_scrapper_state, _lock, scrapper_state, pipeline_state, crawlVars, libVars>>

\* lines 29-32: return JSONResponse(status_code=202)
PubTrigReturn(r) ==
    /\ At(r, PubTrigger, "respond")
    /\ loop' = 0
    /\ reqs' = SetReq(r, "done", TrigResp(202))
    /\ UNCHANGED <<_scrapper_state, _lock, scrapper_state, pipeline_state, tasks, crawlVars, libVars>>

\* line 37: return _scrapper_state; the response is built from the dict, key by
\* key, in the same coroutine: first "is_running" ...
PubStatusReadRunning(r) ==
    /\ At(r, PubStatus, "pending")
    /\ loop' = r
    /\ reqs' = SetReq(r, "read_result", [code |-> 0, is_running |-> _scrapper_state.is_running])
    /\ UNCHANGED <<_scrapper_state, _lock, scrapper_state, pipeline_state, tasks, crawlVars, libVars>>

\* Mutant: reading the result consumes it.
PubStatusReadResult_Consumes(r) ==
    /\ At(r, PubStatus, "read_result")
    /\ loop' = 0
    /\ reqs' = SetReq(r, "done", StatusResp(reqs[r].resp.is_running, _scrapper_state.last_result))
    /\ _scrapper_state' = [_scrapper_state EXCEPT !.last_result = NoResult]
    /\ UNCHANGED <<_lock, scrapper_state, pipeline_state, tasks, crawlVars, libVars>>

\* ... then "last_result"
PubStatusReadResult(r) ==
    /\ At(r, PubStatus, "read_result")
    /\ loop' = 0
    /\ reqs' = SetReq(r, "done", StatusResp(reqs[r].resp.is_running, _scrapper_state.last_result))
    /\ UNCHANGED <<_scrapper_state, _lock, scrapper_state, pipeline_state, tasks, crawlVars, libVars>>

\* line 28, BackgroundTasks: the tasks of a response run once the response is
\* sent, that is after the handler that added them has returned.
TaskStart(t) ==
    /\ t \in TaskIds
    /\ tasks[t].pc = "scheduled"
    /\ reqs[tasks[t].owner].pc = "done"
    /\ tasks' = [tasks EXCEPT ![t].pc = "running"]
    /\ UNCHANGED <<_scrapper_state, _lock, scrapper_state, pipeline_state, reqs, loop, crawlVars, libVars>>

\* lines 43-54: scrape_all_categories returned a summary
PubTaskReturn(t, result) ==
    /\ t \in TaskIds
    /\ tasks[t].job = "pub"
    /\ tasks[t].pc = "running"
    /\ LET res == [status |-> "success", summary |-> result]
       IN  /\ _scrapper_state' = [_scrapper_state EXCEPT !.last_result = res]
           /\ tasks' = [tasks EXCEPT ![t].pc = "finally", ![t].outcome = res]
    /\ UNCHANGED <<_lock, scrapper_state, pipeline_state, reqs, loop, crawlVars, libVars>>

\* Mutant: the except clause logs the failure and records nothing.
PubTaskRaise_NotRecorded(t, err) ==
    /\ t \in TaskIds
    /\ tasks[t].job = "pub"
    /\ tasks[t].pc = "running"
    /\ tasks' = [tasks EXCEPT ![t].pc = "finally",
                              ![t].outcome = [status |-> "error", error |-> err]]
    /\ UNCHANGED <<_scrapper_state, _lock, scrapper_state, pipeline_state, reqs, loop, crawlVars, libVars>>

\* lines 55-57: create_session or scrape_all_categories raised an Exception
PubTaskRaise(t, err) ==
    /\ t \in TaskIds
    /\ tasks[t].job = "pub"
    /\ tasks[t].pc = "running"
    /\ LET res == [status |-> "error", error |-> err]
       IN  /\ _scrapper_state' = [_scrapper_state EXCEPT !.last_result = res]
           /\ tasks' = [tasks EXCEPT ![t].pc = "finally", ![t].outcome = res]
    /\ UNCHANGED <<_lock, scrapper_state, pipeline_state, reqs, loop, crawlVars, libVars>>

\* Mutant: the task ends without clearing the flag.
PubTaskFinally_Omitted(t) ==
    /\ t \in TaskIds
    /\ tasks[t].job = "pub"
    /\ tasks[t].pc = "finally"
    /\ tasks' = [tasks EXCEPT ![t].pc = "done"]
    /\ UNCHANGED <<_scrapper_state, _lock, scrapper_state, pipeline_state, reqs, loop, crawlVars, libVars>>

\* lines 58-59: finally: _scrapper_state["is_running"] = False
PubTaskFinally(t) ==
    /\ t \in TaskIds
    /\ tasks[t].job = "pub"
    /\ tasks[t].pc = "finally"
    /\ _scrapper_state' = [_scrapper_state EXCEPT !.is_running = FALSE]
    /\ tasks' = [tasks EXCEPT ![t].pc = "done"]
    /\ UNCHANGED <<_lock, scrapper_state, pipeline_state, reqs, loop, crawlVars, libVars>>

-----------------------------------------------------------------------------
(* routes/private/scrapper.py: the token-protected scrape route.  The token   *)
(* check (Depends) is done before the handler body and touches no job state.  *)

\* Mutant: the handler awaits between the check and the set, which gives the
\* loop to any other coroutine.
PrivTrigCheck_Awaits(r) ==
    /\ At(r, PrivTrigger, "pending")
    /\ loop' = 0
    /\ IF scrapper_state.is_running
       THEN reqs' = SetReq(r, "done", TrigResp(409))
       ELSE reqs' = SetReq(r, "set_running", NoResp)
    /\ UNCHANGED <<_scrapper_state, _lock, scrapper_state, pipeline_state, tasks, crawlVars, libVars>>

\* lines 19-23: if scrapper_state["is_running"]: raise HTTPException(409).
\* The handler has no await: it keeps the loop after the check.
PrivTrigCheck(r) ==
    /\ At(r, PrivTrigger, "pending")
    /\ IF scrapper_state.is_running
       THEN /\ loop' = 0
            /\ reqs' = SetReq(r, "done", TrigResp(409))
       ELSE /\ loop' = r
            /\ reqs' = SetReq(r, "set_running", NoResp)
    /\ UNCHANGED <<_scrapper_state, _lock, scrapper_state, pipeline_state, tasks, crawlVars, libVars>>

\* line 26: scrapper_state["is_running"] = True
PrivTrigSetRunning(r) ==
    /\ At(r, PrivTrigger, "set_running")
    /\ scrapper_state' = [scrapper_state EXCEPT !.is_running = TRUE]
    /\ loop' = r
    /\ reqs' = SetReq(r, "clear_result", NoResp)
    /\ UNCHANGED <<_scrapper_state, _lock, pipeline_state, tasks, crawlVars, libVars>>

\* line 27: scrapper_state["last_result"] = None
PrivTrigClearResult(r) ==
    /\ At(r, PrivTrigger, "clear_result")
    /\ scrapper_state' = [scrapper_state EXCEPT !.last_result = NoResult]
    /\ loop' = r
    /\ reqs' = SetReq(r, "add_task", NoResp)
    /\ UNCHANGED <<_scrapper_state, _lock, pipeline_state, tasks, crawlVars, libVars>>

\* line 30: background_tasks.add_task(_run_scrapper_task)
PrivTrigAddTask(r) ==
    /\ At(r, PrivTrigger, "add_task")
    /\ tasks' = add_task("priv", r)
    /\ loop' = r
    /\ reqs' = SetReq(r, "respond", NoResp)
    /\ UNCHANGED <<_scrapper_state, _lock, scrapper_state, pipeline_state, crawlVars, libVars>>

\* lines 32-35: return JSONResponse(status_code=202)
PrivTrigReturn(r) ==
    /\ At(r, PrivTrigger, "respond")
    /\ loop' = 0
    /\ reqs' = SetReq(r, "done", TrigResp(202))
    /\ UNCHANGED <<_scrapper_state, _lock, scrapper_state, pipeline_state, tasks, crawlVars, libVars>>

\* lines 41-42: "is_running": scrapper_state["is_running"]
PrivStatusReadRunning(r) ==
    /\ At(r, PrivStatus, "pending")
    /\ loop' = r
    /\ reqs' = SetReq(r, "read_result", [code |-> 0, is_running |-> scrapper_state.is_running])
    /\ UNCHANGED <<_scrapper_state, _lock, scrapper_state, pipeline_state, tasks, crawlVars, libVars>>

\* line 43: "last_result": scrapper_state["last_result"]
PrivStatusReadResult(r) ==
    /\ At(r, PrivStatus, "read_result")
    /\ loop' = 0
    /\ reqs' = SetReq(r, "done", StatusResp(reqs[r].resp.is_running, scrapper_state.last_result))
    /\ UNCHANGED <<_scrapper_state, _lock, scrapper_state, pipeline_state, tasks, crawlVars, libVars>>

\* scripts/scrapper_lib.py line 833: def trigger_scrap(task): one required parameter.
TriggerScrapParams == 1

\* routes/private/scrapper.py line 50: trigger_scrap() is called with no argument.
PrivCallArgs == 0

\* What a call of trigger_scrap with nargs arguments ends with, when the scrape
\* it would run ends with `scrape` ("returned" or the exception raised): a call
\* that does not fit the signature raises TypeError before the body runs.
trigger_scrap(nargs, scrape) ==
    IF nargs # TriggerScrapParams THEN "TypeError" ELSE scrape

\* lines 49-59: try: trigger_scrap(); last_result = success / except: last_result = error
PrivTaskRun(t, scrape) ==
    /\ t \in TaskIds
    /\ tasks[t].job = "priv"
    /\ tasks[t].pc = "running"
    /\ LET out == trigger_scrap(PrivCallArgs, scrape)
           res == IF out = "returned"
                  THEN [status |-> "success", message |-> "Scrapping completed successfully"]
                  ELSE [status |-> "error", error |-> out]
       IN  /\ scrapper_state' = [scrapper_state EXCEPT !.last_result = res]
           /\ tasks' = [tasks EXCEPT ![t].pc = "finally", ![t].outcome = res]
    /\ UNCHANGED <<_scrapper_state, _lock, pipeline_state, reqs, loop, crawlVars, libVars>>

\* lines 60-61: finally: scrapper_state["is_running"] = False
PrivTaskFinally(t) ==
    /\ t \in TaskIds
    /\ tasks[t].job = "priv"
    /\ tasks[t].pc = "finally"
    /\ scrapper_state' = [scrapper_state EXCEPT !.is_running = FALSE]
    /\ tasks' = [tasks EXCEPT ![t].pc = "done"]
    /\ UNCHANGED <<_scrapper_state, _lock, pipeline_state, reqs, loop, crawlVars, libVars>>

-----------------------------------------------------------------------------
(* routes/public/data_process.py: the ETL route. *)

\* lines 20-24: if pipeline_state["is_running"]: raise HTTPException(409).
\* The handler has no await: it keeps the loop after the check.
EtlTrigCheck(r) ==
    /\ At(r, EtlTrigger, "pending")
    /\ IF pipeline_state.is_running
       THEN /\ loop' = 0
            /\ reqs' = SetReq(r, "done", TrigResp(409))
       ELSE /\ loop' = r
            /\ reqs' = SetReq(r, "set_running", NoResp)
    /\ UNCHANGED <<_scrapper_state, _lock, scrapper_state, pipeline_state, tasks, crawlVars, libVars>>

\* line 27: pipeline_state["is_running"] = True
EtlTrigSetRunning(r) ==
    /\ At(r, EtlTrigger, "set_running")
    /\ pipeline_state' = [pipeline_state EXCEPT !.is_running = TRUE]
    /\ loop' = r
    /\ reqs' = SetReq(r, "add_task", NoResp)
    /\ UNCHANGED <<_scrapper_state, _lock, scrapper_state, tasks, crawlVars, libVars>>

\* line 30: background_tasks.add_task(_run_pipeline_task)
EtlTrigAddTask(r) ==
    /\ At(r, EtlTrigger, "add_task")
    /\ tasks' = add_task("etl", r)
    /\ loop' = r
    /\ reqs' = SetReq(r, "respond", NoResp)
    /\ UNCHANGED <<_scrapper_state, _lock, scrapper_state, pipeline_state, crawlVars, libVars>>

\* lines 32-35: return JSONResponse(status_code=202)
EtlTrigReturn(r) ==
    /\ At(r, EtlTrigger, "respond")
    /\ loop' = 0
    /\ reqs' = SetReq(r, "done", TrigResp(202))
    /\ UNCHANGED <<_scrapper_state, _lock, scrapper_state, pipeline_state, tasks, crawlVars, libVars>>

\* lines 38-45: try: run_pipeline() / except Exception: pass /
\* finally: pipeline_state["is_running"] = False.  Whether run_pipeline returned
\* or raised leaves no trace in the job state.
EtlTaskFinish(t) ==
    /\ t \in TaskIds
    /\ tasks[t].job = "etl"
    /\ tasks[t].pc = "running"
    /\ pipeline_state' = [pipeline_state EXCEPT !.is_running = FALSE]
    /\ tasks' = [tasks EXCEPT ![t].pc = "done"]
    /\ UNCHANGED <<_scrapper_state, _lock, scrapper_state, reqs, loop, crawlVars, libVars>>

-----------------------------------------------------------------------------

GuardInit ==
    /\ _scrapper_state = [is_running |-> FALSE, last_result |-> NoResult]
    /\ _lock = 0
    /\ scrapper_state = [is_running |-> FALSE, last_result |-> NoResult]
    /\ pipeline_state = [is_running |-> FALSE]
    /\ reqs = << >>
    /\ loop = 0
    /\ tasks = << >>

\* The public scrape routes (the guard with _lock).
PubRoutes == {PubTrigger, PubStatus}

\* The routes whose guard takes no lock.
NoLockRoutes == {PrivTrigger, PrivStatus, EtlTrigger}

PubNext ==
    \/ \E r \in ReqIds : PubTrigLock(r)
    \/ \E r \in ReqIds : PubTrigCheck(r)
    \/ \E r \in ReqIds : PubTrigSetRunning(r)
    \/ \E r \in ReqIds : PubTrigClearResult(r)
    \/ \E r \in ReqIds : PubTrigAddTask(r)
    \/ \E r \in ReqIds : PubTrigReturn(r)
    \/ \E r \in ReqIds : PubStatusReadRunning(r)
    \/ \E r \in ReqIds : PubStatusReadResult(r)
    \/ \E t \in TaskIds, s \in Summaries : PubTaskReturn(t, s)
    \/ \E t \in TaskIds, e \in ScrapeErrors : PubTaskRaise(t, e)
    \/ \E t \in TaskIds : PubTaskFinally(t)

PrivNext ==
    \/ \E r \in ReqIds : PrivTrigCheck(r)
    \/ \E r \in ReqIds : PrivTrigSetRunning(r)
    \/ \E r \in ReqIds : PrivTrigClearResult(r)
    \/ \E r \in ReqIds : PrivTrigAddTask(r)
    \/ \E r \in ReqIds : PrivTrigReturn(r)
    \/ \E r \in ReqIds : PrivStatusReadRunning(r)
    \/ \E r \in ReqIds : PrivStatusReadResult(r)
    \/ \E t \in TaskIds, s \in {"returned"} \cup ScrapeErrors : PrivTaskRun(t, s)
    \/ \E t \in TaskIds : PrivTaskFinally(t)

EtlNext ==
    \/ \E r \in ReqIds : EtlTrigCheck(r)
    \/ \E r \in ReqIds : EtlTrigSetRunning(r)
    \/ \E r \in ReqIds : EtlTrigAddTask(r)
    \/ \E r \in ReqIds : EtlTrigReturn(r)
    \/ \E t \in TaskIds : EtlTaskFinish(t)

\* The public scrape job: its trigger, its status, its background task.
Next ==
    \/ \E route \in PubRoutes : Arrive(route)
    \/ \E t \in TaskIds : TaskStart(t)
    \/ PubNext

\* The jobs guarded without a lock: the token-protected scrape and the ETL.
NextNoLock ==
    \/ \E route \in NoLockRoutes : Arrive(route)
    \/ \E t \in TaskIds : TaskStart(t)
    \/ PrivNext
    \/ EtlNext

\* Both scrape jobs, each with its status route.
ScrapeRoutes == {PubTrigger, PubStatus, PrivTrigger, PrivStatus}

NextScrape ==
    \/ \E route \in ScrapeRoutes : Arrive(route)
    \/ \E t \in TaskIds : TaskStart(t)
    \/ PubNext
    \/ PrivNext

-----------------------------------------------------------------------------
(* scripts/scrapper_lib.py: one run of scrape_all_categories.                 *)
(*                                                                            *)
(* The site is the environment.  It lists up to MaxCats categories; the       *)
(* listing pages of a category form a chain linked by "next" links, page k    *)
(* of category c being <<c, k>>; a card is <<c, k, position>>, which is also  *)
(* the title and the link of its anchor.  Each load of a page may fail.       *)
(* Price and rating are computed from the card alone (parse_price,            *)
(* extract_rating_from_tag) and are left out of the records here.             *)

\* Categories the site root lists.
MaxCats == 2

\* Listing pages in the chain of one category.
MaxPages == 2

\* Product cards the site serves in one run.
MaxBooks == 2

\* Python's None / a value, for the Optional fields.
None == << >>

Some(x) == <<x>>

\* Python's truth value of an Optional[int]: None and 0 are false.
Truthy(opt) == opt # None /\ opt[1] # 0

Min(a, b) == IF a <= b THEN a ELSE b

\* seq[:k] for k >= 0
Slice(seq, k) == SubSeq(seq, 1, Min(k, Len(seq)))

\* What the markup of a card holds for lines 493-494: no <h3> at all, an <h3>
\* without <a>, an anchor without href, an anchor with href.
CardKinds == {"no_h3", "no_a", "a_nohref", "a_href"}

\* What parse_availability_from_product_page returns for a detail page that
\* reads "In stock (3 available)".
InStock == <<TRUE, Some(3)>>

\* ... and for a detail page without the availability element.
NoAvailability == <<FALSE, None>>

DetailOutcome(load, pr, img) ==
    [load |-> load, availability |-> pr[1], stock |-> pr[2], img |-> img]

\* No detail page is asked for (the card has no product link).
NotRequested == DetailOutcome("none", NoAvailability, FALSE)

\* How the try block of lines 514-527 may go for one product:
\*   "load_failed":  load_product_page_with_cache raised (line 515);
\*   "image_failed": the page loaded and its availability was parsed (line 520),
\*                   then resolving the detail image raised (line 525, urljoin
\*                   raises ValueError on a malformed src);
\*   "ok":           the block ran to its end; img tells whether the page has
\*                   an image that replaces the thumbnail.
DetailOutcomes ==
    {DetailOutcome("load_failed", NoAvailability, FALSE),
     DetailOutcome("image_failed", InStock, FALSE),
     DetailOutcome("ok", InStock, TRUE),
     DetailOutcome("ok", NoAvailability, FALSE)}

Unbound == [state |-> "unbound", card |-> <<0, 0, 0>>, href |-> FALSE]

\* book.h3.a when the <h3> has no <a>
NoneTag == [state |-> "none", card |-> <<0, 0, 0>>, href |-> FALSE]

Event(op, cat, pg, ok, nxt, n) ==
    [op |-> op, cat |-> cat, page |-> pg, ok |-> ok, next |-> nxt, n |-> n, h1 |-> FALSE]

\* No function is being called.
LibIdle ==
    /\ call = [fn |-> "none"]
    /\ ret = None
    /\ cache_dir = << >>
    /\ loaded = << >>
    /\ retry = << >>
    /\ attempts = << >>
    /\ out_path = << >>
    /\ DATASET_PATH = << >>
    /\ lru_cache = << >>

\* The locals of scrape_all_categories and get_books before the first statement.
CrawlLocals ==
    /\ categories = << >>
    /\ idx = 0
    /\ page = 0
    /\ parser = [heading |-> None, ncards |-> 0, next |-> FALSE]
    /\ card = 0
    /\ a_tag = Unbound
    /\ books_data = << >>
    /\ books = << >>
    /\ results = << >>
    /\ total_books = 0
    /\ csv_master = None
    /\ summary = None
    /\ log = << >>
    /\ served = << >>
    /\ produced = << >>
    /\ cards_seen = 0

\* The state before scrape_all_categories is called.
CrawlIdle ==
    /\ max_categories = None
    /\ save_master_csv = TRUE
    /\ cpc = "idle"
    /\ CrawlLocals

\* Mutant: the records parsed before the failure are kept for the category.
CategoryRaised_KeepsPartial ==
    /\ books' = books_data
    /\ produced' = Append(produced, [raised |-> TRUE, books_data |-> books_data])
    /\ cpc' = "cat_append"

\* get_books raised: line 803-805, except Exception: books = []
CategoryRaised ==
    /\ books' = << >>
    /\ produced' = Append(produced, [raised |-> TRUE, books_data |-> books_data])
    /\ cpc' = "cat_append"

\* lines 784-791: categories = get_categories(session); the slice; results = []
GetCategoriesOk(n) ==
    /\ cpc = "start"
    /\ LET found == [i \in 1..n |-> i]
       IN  categories' = IF Truthy(max_categories) THEN Slice(found, max_categories[1]) ELSE found
    /\ idx' = 1
    /\ results' = << >>
    /\ total_books' = 0
    /\ log' = Append(log, Event("get_categories", 0, 0, TRUE, FALSE, n))
    /\ cpc' = "cat_loop"
    /\ UNCHANGED <<max_categories, save_master_csv, page, parser, card, a_tag, books_data,
                   books, csv_master, summary, served, produced, cards_seen>>
    /\ UNCHANGED <<guardVars, libVars>>

\* line 784: load_page of the site root raised: scrape_all_categories raises
GetCategoriesFail ==
    /\ cpc = "start"
    /\ log' = Append(log, Event("get_categories", 0, 0, FALSE, FALSE, 0))
    /\ cpc' = "raised"
    /\ UNCHANGED <<max_categories, save_master_csv, categories, idx, page, parser, card, a_tag,
                   books_data, books, results, total_books, csv_master, summary, served,
                   produced, cards_seen>>
    /\ UNCHANGED <<guardVars, libVars>>

\* lines 793-796 and 482-483: the for loop enters get_books for the next category
CatBegin ==
    /\ cpc = "cat_loop"
    /\ idx <= Len(categories)
    /\ books_data' = << >>
    /\ page' = 1
    /\ a_tag' = Unbound
    /\ served' = << >>
    /\ cpc' = "load_page"
    /\ UNCHANGED <<max_categories, save_master_csv, categories, idx, parser, card, books,
                   results, total_books, csv_master, summary, log, produced, cards_seen>>
    /\ UNCHANGED <<guardVars, libVars>>

\* Mutant: the heading is read once, on the first page of the category.
LoadPageOk_HeadingOnce(h1, n, nxt) ==
    /\ cpc = "load_page"
    /\ cards_seen + n <= MaxBooks
    /\ nxt => page < MaxPages
    /\ parser' = [heading |-> IF page > 1 THEN parser.heading
                              ELSE IF h1 THEN Some(<<categories[idx], page>>) ELSE None,
                  ncards |-> n, next |-> nxt]
    /\ card' = 1
    /\ cards_seen' = cards_seen + n
    /\ log' = Append(log, [Event("load_page", categories[idx], page, TRUE, nxt, n) EXCEPT !.h1 = h1])
    /\ cpc' = "cards"
    /\ UNCHANGED <<max_categories, save_master_csv, categories, idx, page, a_tag, books_data,
                   books, results, total_books, csv_master, summary, served, produced>>
    /\ UNCHANGED <<guardVars, libVars>>

\* lines 486-490: the listing page loads: its heading, its cards, its "next" link
LoadPageOk(h1, n, nxt) ==
    /\ cpc = "load_page"
    /\ cards_seen + n <= MaxBooks
    /\ nxt => page < MaxPages
    /\ parser' = [heading |-> IF h1 THEN Some(<<categories[idx], page>>) ELSE None,
                  ncards |-> n, next |-> nxt]
    /\ card' = 1
    /\ cards_seen' = cards_seen + n
    /\ log' = Append(log, [Event("load_page", categories[idx], page, TRUE, nxt, n) EXCEPT !.h1 = h1])
    /\ cpc' = "cards"
    /\ UNCHANGED <<max_categories, save_master_csv, categories, idx, page, a_tag, books_data,
                   books, results, total_books, csv_master, summary, served, produced>>
    /\ UNCHANGED <<guardVars, libVars>>

\* line 486: load_page raised (request failed, HTTP error status): get_books raises
LoadPageFail ==
    /\ cpc = "load_page"
    /\ log' = Append(log, Event("load_page", categories[idx], page, FALSE, FALSE, 0))
    /\ CategoryRaised
    /\ UNCHANGED <<max_categories, save_master_csv, categories, idx, page, parser, card, a_tag,
                   books_data, results, total_books, csv_master, summary, served, cards_seen>>
    /\ UNCHANGED <<guardVars, libVars>>

\* lines 492-496: a_tag = book.h3.a raises without <h3> (a_tag keeps what it
\* held); a_tag.get raises when a_tag is None; both are caught, title = None.
AnchorOf(kind, cid) ==
    CASE kind = "no_h3" -> a_tag
      [] kind = "no_a"  -> NoneTag
      [] OTHER          -> [state |-> "tag", card |-> cid, href |-> (kind = "a_href")]

\* lines 494-496: title
TitleOf(kind, cid) == IF kind \in {"a_nohref", "a_href"} THEN Some(cid) ELSE None

\* lines 505-508: prod_href = a_tag.get("href") if a_tag else None; urljoin; urldefrag
ProductPageOf(tag) == IF tag.state = "tag" /\ tag.href THEN Some(tag.card) ELSE None

\* Mutant: the defaults are set once, before the loop over the cards, so a
\* product whose detail page fails is in stock.
DetailFields_WrongDefault(d) ==
    [availability |-> IF d.load \in {"ok", "image_failed"} THEN d.availability ELSE TRUE,
     stock        |-> IF d.load \in {"ok", "image_failed"} THEN d.stock ELSE None,
     detail_image |-> d.load = "ok" /\ d.img]

\* lines 510-527: availability = False, stock = None; in the try block,
\* availability and stock are assigned as soon as the page is parsed (line
\* 520), the image after that (line 525); except Exception: logged.
DetailFields(d) ==
    [availability |-> IF d.load \in {"ok", "image_failed"} THEN d.availability ELSE FALSE,
     stock        |-> IF d.load \in {"ok", "image_failed"} THEN d.stock ELSE None,
     detail_image |-> d.load = "ok" /\ d.img]

\* lines 491-542: one card of book_nodes
ProcessCard(kind, d) ==
    /\ cpc = "cards"
    /\ card <= parser.ncards
    /\ LET cid  == <<categories[idx], page, card>>
           tag  == AnchorOf(kind, cid)
           url  == ProductPageOf(tag)
           f    == DetailFields(d)
           rec  == [title        |-> TitleOf(kind, cid),
                    category     |-> parser.heading,
                    image        |-> IF f.detail_image
                                     THEN [kind |-> "detail", of |-> tag.card]
                                     ELSE [kind |-> "thumb", of |-> cid],
                    product_page |-> url,
                    availability |-> f.availability,
                    stock        |-> f.stock]
       IN  /\ served' = Append(served, [card |-> cid, kind |-> kind, detail |-> d])
           /\ IF tag.state = "unbound"
              THEN \* line 505 reads a_tag, which was never assigned: UnboundLocalError
                   /\ d = NotRequested
                   /\ CategoryRaised
                   /\ UNCHANGED <<a_tag, books_data, card>>
              ELSE /\ IF url = None THEN d = NotRequested ELSE d \in DetailOutcomes
                   /\ a_tag' = tag
                   /\ books_data' = Append(books_data, rec)
                   /\ card' = card + 1
                   /\ UNCHANGED <<books, produced, cpc>>
    /\ UNCHANGED <<max_categories, save_master_csv, categories, idx, page, parser, results,
                   total_books, csv_master, summary, log, cards_seen>>
    /\ UNCHANGED <<guardVars, libVars>>

\* Mutant: the loop goes on to the following page whether the "next" link is there or not.
Paginate_NoBreak ==
    /\ cpc = "cards"
    /\ card > parser.ncards
    /\ IF page < MaxPages
       THEN /\ page' = page + 1
            /\ log' = Append(log, Event("sleep_page", categories[idx], page, TRUE, FALSE, 0))
            /\ cpc' = "load_page"
            /\ UNCHANGED <<books, produced>>
       ELSE /\ books' = books_data
            /\ produced' = Append(produced, [raised |-> FALSE, books_data |-> books_data])
            /\ cpc' = "cat_append"
            /\ UNCHANGED <<page, log>>
    /\ UNCHANGED <<max_categories, save_master_csv, categories, idx, parser, card, a_tag,
                   books_data, results, total_books, csv_master, summary, served, cards_seen>>
    /\ UNCHANGED <<guardVars, libVars>>

\* lines 544-553: after the cards, follow the "next" link after per_page_delay,
\* or leave the loop and return books_data
Paginate ==
    /\ cpc = "cards"
    /\ card > parser.ncards
    /\ IF parser.next
       THEN /\ page' = page + 1
            /\ log' = Append(log, Event("sleep_page", categories[idx], page, TRUE, FALSE, 0))
            /\ cpc' = "load_page"
            /\ UNCHANGED <<books, produced>>
       ELSE /\ books' = books_data
            /\ produced' = Append(produced, [raised |-> FALSE, books_data |-> books_data])
            /\ cpc' = "cat_append"
            /\ UNCHANGED <<page, log>>
    /\ UNCHANGED <<max_categories, save_master_csv, categories, idx, parser, card, a_tag,
                   books_data, results, total_books, csv_master, summary, served, cards_seen>>
    /\ UNCHANGED <<guardVars, libVars>>

\* Mutant: the entry of the category is put in front of results.
CatAppend_Prepends ==
    /\ cpc = "cat_append"
    /\ results' = <<[cat |-> categories[idx], books |-> books]>> \o results
    /\ total_books' = total_books + Len(books)
    /\ log' = Append(log, Event("sleep_cat", categories[idx], 0, TRUE, FALSE, 0))
    /\ idx' = idx + 1
    /\ cpc' = "cat_loop"
    /\ UNCHANGED <<max_categories, save_master_csv, categories, page, parser, card, a_tag,
                   books_data, books, csv_master, summary, served, produced, cards_seen>>
    /\ UNCHANGED <<guardVars, libVars>>

\* Mutant: total_books counts the records parsed, kept or not.
CatAppend_CountsParsed ==
    /\ cpc = "cat_append"
    /\ results' = Append(results, [cat |-> categories[idx], books |-> books])
    /\ total_books' = total_books + Len(books_data)
    /\ log' = Append(log, Event("sleep_cat", categories[idx], 0, TRUE, FALSE, 0))
    /\ idx' = idx + 1
    /\ cpc' = "cat_loop"
    /\ UNCHANGED <<max_categories, save_master_csv, categories, page, parser, card, a_tag,
                   books_data, books, csv_master, summary, served, produced, cards_seen>>
    /\ UNCHANGED <<guardVars, libVars>>

\* Mutant: the delay is skipped after a category whose crawl raised.
CatAppend_NoDelayAfterError ==
    /\ cpc = "cat_append"
    /\ results' = Append(results, [cat |-> categories[idx], books |-> books])
    /\ total_books' = total_books + Len(books)
    /\ log' = IF produced[Len(produced)].raised THEN log
               ELSE Append(log, Event("sleep_cat", categories[idx], 0, TRUE, FALSE, 0))
    /\ idx' = idx + 1
    /\ cpc' = "cat_loop"
    /\ UNCHANGED <<max_categories, save_master_csv, categories, page, parser, card, a_tag,
                   books_data, books, csv_master, summary, served, produced, cards_seen>>
    /\ UNCHANGED <<guardVars, libVars>>

\* lines 809-811: results.append((cat_name, books)); total_books += len(books); sleep(0.55)
CatAppend ==
    /\ cpc = "cat_append"
    /\ results' = Append(results, [cat |-> categories[idx], books |-> books])
    /\ total_books' = total_books + Len(books)
    /\ log' = Append(log, Event("sleep_cat", categories[idx], 0, TRUE, FALSE, 0))
    /\ idx' = idx + 1
    /\ cpc' = "cat_loop"
    /\ UNCHANGED <<max_categories, save_master_csv, categories, page, parser, card, a_tag,
                   books_data, books, csv_master, summary, served, produced, cards_seen>>
    /\ UNCHANGED <<guardVars, libVars>>

RECURSIVE Flatten(_)
\* lines 814-816: all_books.extend(books) for each entry of results
Flatten(rs) == IF rs = << >> THEN << >> ELSE Head(rs).books \o Flatten(Tail(rs))

\* lines 823-828
Summary == [categories_count |-> Len(results), total_books |-> total_books,
            csv_master |-> save_master_csv]

\* lines 819-830: save_master_csv: the file is written, the summary returned
WriteCsvOk ==
    /\ cpc = "cat_loop"
    /\ idx > Len(categories)
    /\ save_master_csv
    /\ csv_master' = Some(Flatten(results))
    /\ log' = Append(log, Event("write_csv", 0, 0, TRUE, FALSE, Len(Flatten(results))))
    /\ summary' = Some(Summary)
    /\ cpc' = "done"
    /\ UNCHANGED <<max_categories, save_master_csv, categories, idx, page, parser, card, a_tag,
                   books_data, books, results, total_books, served, produced, cards_seen>>
    /\ UNCHANGED <<guardVars, libVars>>

\* line 820: save_books_to_csv_master raised (the file cannot be written)
WriteCsvFail ==
    /\ cpc = "cat_loop"
    /\ idx > Len(categories)
    /\ save_master_csv
    /\ log' = Append(log, Event("write_csv", 0, 0, FALSE, FALSE, 0))
    /\ cpc' = "raised"
    /\ UNCHANGED <<max_categories, save_master_csv, categories, idx, page, parser, card, a_tag,
                   books_data, books, results, total_books, csv_master, summary, served,
                   produced, cards_seen>>
    /\ UNCHANGED <<guardVars, libVars>>

\* lines 819-830 with save_master_csv false: nothing is written
ReturnWithoutCsv ==
    /\ cpc = "cat_loop"
    /\ idx > Len(categories)
    /\ ~save_master_csv
    /\ summary' = Some(Summary)
    /\ cpc' = "done"
    /\ UNCHANGED <<max_categories, save_master_csv, categories, idx, page, parser, card, a_tag,
                   books_data, books, results, total_books, csv_master, log, served,
                   produced, cards_seen>>
    /\ UNCHANGED <<guardVars, libVars>>

\* scrape_all_categories is called: its parameters
InitCrawl ==
    /\ GuardInit
    /\ max_categories \in {None} \cup {Some(k) : k \in 0..MaxCats}
    /\ save_master_csv \in BOOLEAN
    /\ cpc = "start"
    /\ CrawlLocals
    /\ LibIdle

\* A run over a site whose pages all have a heading and whose products all
\* have a link and a detail page that loads, except the cards without <h3>:
\* the categories and their listing pages are what varies.
NextCrawl ==
    \/ \E n \in 0..MaxCats : GetCategoriesOk(n)
    \/ GetCategoriesFail
    \/ CatBegin
    \/ \E n \in 0..MaxBooks, nxt \in BOOLEAN : LoadPageOk(TRUE, n, nxt)
    \/ LoadPageFail
    \/ \E kind \in {"no_h3", "a_href"}, d \in {NotRequested, DetailOutcome("ok", InStock, TRUE)} :
          ProcessCard(kind, d)
    \/ Paginate
    \/ CatAppend
    \/ WriteCsvOk
    \/ WriteCsvFail
    \/ ReturnWithoutCsv

\* scrape_all_categories is called with its defaults but for save_master_csv
InitBooks ==
    /\ GuardInit
    /\ max_categories = None
    /\ save_master_csv \in BOOLEAN
    /\ cpc = "start"
    /\ CrawlLocals
    /\ LibIdle

\* A run over a site with one category: the cards and the detail pages are what varies.
NextBooks ==
    \/ GetCategoriesOk(1)
    \/ CatBegin
    \/ \E h1 \in BOOLEAN, n \in 0..MaxBooks, nxt \in BOOLEAN : LoadPageOk(h1, n, nxt)
    \/ LoadPageFail
    \/ \E kind \in CardKinds, d \in DetailOutcomes \cup {NotRequested} : ProcessCard(kind, d)
    \/ Paginate
    \/ CatAppend
    \/ WriteCsvOk
    \/ WriteCsvFail
    \/ ReturnWithoutCsv

-----------------------------------------------------------------------------
(* scripts/scrapper_lib.py: the functions without side effect.                *)
(*                                                                            *)
(* A text is a sequence of pieces: a piece is one character (a parenthesis, a *)
(* digit, a blank) or a word.                                                 *)

\* The longest availability text.
MaxText == 5

Pieces == {"(", ")", "0", "3", " ", "Available", "In stock", "x"}

Texts == UNION {[1..n -> Pieces] : n \in 0..MaxText}

\* \d
IsDigit(c) == c \in {"0", "3"}

\* \s
IsSpace(c) == c = " "

\* str.lower(), and what re.I makes of the pattern's letters
Lower(c) ==
    CASE c = "Available" -> "available"
      [] c = "In stock"  -> "in stock"
      [] OTHER           -> c

DigitValue(c) == IF c = "3" THEN 3 ELSE 0

RECURSIVE IntOf(_)
\* int(): the number a sequence of digits denotes
IntOf(ds) == IF ds = << >> THEN 0 ELSE 10 * IntOf(SubSeq(ds, 1, Len(ds) - 1)) + DigitValue(ds[Len(ds)])

RECURSIVE Strip(_)
\* str.strip()
Strip(t) ==
    IF t = << >> THEN t
    ELSE IF IsSpace(Head(t)) THEN Strip(Tail(t))
    ELSE IF IsSpace(t[Len(t)]) THEN Strip(SubSeq(t, 1, Len(t) - 1))
    ELSE t

RECURSIVE RunEnd(_, _, _)
\* The position after the longest run of pieces of one class starting at i
\* (a greedy \d+ or \s*): digits when digit is true, blanks otherwise.
RunEnd(t, i, digit) ==
    IF i <= Len(t) /\ (IF digit THEN IsDigit(t[i]) ELSE IsSpace(t[i]))
    THEN RunEnd(t, i + 1, digit)
    ELSE i

\* re.match(r"\((\d+)\s*available\)", text[i:], re.I)
CountAt(t, i) ==
    /\ t[i] = "("
    /\ RunEnd(t, i + 1, TRUE) > i + 1
    /\ LET k == RunEnd(t, RunEnd(t, i + 1, TRUE), FALSE)
       IN  /\ k + 1 <= Len(t)
           /\ Lower(t[k]) = "available"
           /\ t[k + 1] = ")"

\* The least element of a non-empty set of positions: re.search finds the leftmost match.
First(S) == CHOOSE i \in S : \A j \in S : i <= j

\* Mutant: availability is the presence of "in stock" in every case.
parse_availability_text_InStockOnly(text) ==
    LET t        == Strip(text)
        in_stock == \E i \in 1..Len(t) : Lower(t[i]) = "in stock"
        m        == {i \in 1..Len(t) : CountAt(t, i)}
        m2       == {i \in 1..Len(t) : IsDigit(t[i])}
    IN  IF m # {}
        THEN <<in_stock, Some(IntOf(SubSeq(t, First(m) + 1, RunEnd(t, First(m) + 1, TRUE) - 1)))>>
        ELSE IF m2 # {}
        THEN <<in_stock, Some(IntOf(SubSeq(t, First(m2), RunEnd(t, First(m2), TRUE) - 1)))>>
        ELSE <<in_stock, None>>

\* lines 352-370
parse_availability_text(text) ==
    LET t        == Strip(text)
        in_stock == \E i \in 1..Len(t) : Lower(t[i]) = "in stock"
        m        == {i \in 1..Len(t) : CountAt(t, i)}
        m2       == {i \in 1..Len(t) : IsDigit(t[i])}
    IN  IF m # {}
        THEN <<TRUE, Some(IntOf(SubSeq(t, First(m) + 1, RunEnd(t, First(m) + 1, TRUE) - 1)))>>
        ELSE IF m2 # {}
        THEN <<in_stock, Some(IntOf(SubSeq(t, First(m2), RunEnd(t, First(m2), TRUE) - 1)))>>
        ELSE <<in_stock, None>>

\* A product page, as far as availability goes: whether it has the element
\* <p class="instock availability">, and the text of the element.
ProductPages == {[p |-> FALSE, text |-> << >>]} \cup {[p |-> TRUE, text |-> t] : t \in Texts}

\* lines 373-386
parse_availability_from_product_page(product_soup) ==
    IF ~product_soup.p THEN <<FALSE, None>> ELSE parse_availability_text(product_soup.text)

\* A call of parse_availability_from_product_page returns.
ParseAvailability ==
    /\ call.fn = "parse_availability_from_product_page"
    /\ ret = None
    /\ ret' = Some(parse_availability_from_product_page(call.arg))
    /\ UNCHANGED <<call, cache_dir, loaded, retry, attempts, out_path,
                   DATASET_PATH, lru_cache, guardVars, crawlVars>>

\* parse_availability_from_product_page is called on a product page
InitAvailability ==
    /\ GuardInit
    /\ CrawlIdle
    /\ call \in {[fn |-> "parse_availability_from_product_page", arg |-> pp] : pp \in ProductPages}
    /\ ret = None
    /\ cache_dir = << >>
    /\ loaded = << >>
    /\ retry = << >>
    /\ attempts = << >>
    /\ out_path = << >>
    /\ DATASET_PATH = << >>
    /\ lru_cache = << >>

NextAvailability == ParseAvailability

-----------------------------------------------------------------------------
(* scripts/scrapper_lib.py: load_product_page_with_cache, called with a       *)
(* cache directory, by one thread at a time.                                  *)
(*                                                                            *)
(* The text of a page is its content and whether its lines end with "\r\n".   *)

\* Calls of load_product_page_with_cache in one behaviour.
MaxLoads == 3

Urls == {"u1", "u2"}

PageTexts == [content : {"a", "b"}, crlf : BOOLEAN]

\* line 398: the SHA-1 of the URL; distinct URLs of the model have distinct keys.
_cache_key_for_url(url) == <<"sha1", url>>

\* cache_file.read_text(encoding="utf-8"), line 432: the file is read in text
\* mode with universal newlines, "\r\n" and "\r" come back as "\n".
read_text(file) == [file EXCEPT !.crlf = FALSE]

\* How cache_file.write_text(text, encoding="utf-8") of line 444 may end:
\* written; raised before the file exists (it cannot be created); raised
\* once the file was created (the device is full): a file is left with the
\* part of the text written before the failure.
WriteOutcomes == {"written", "not_created", "truncated"}

\* The part of a text left by a write that failed on its first block.
Truncated(text) == [content |-> "", crlf |-> FALSE]

\* line 444: the file after cache_file.write_text, None if there is none
write_text(text, outcome) ==
    CASE outcome = "written"     -> Some(text)
      [] outcome = "not_created" -> None
      [] outcome = "truncated"   -> Some(Truncated(text))

\* BeautifulSoup(text, "html.parser"): the document parsed from a text
BeautifulSoup(text) == [html |-> text]

\* What session.get and raise_for_status make of one request (lines 435-442).
FetchFailures == {"ConnectionError", "HTTPError"}

Loaded(url, before, fetch, text, write, after, returned) ==
    [url |-> url, before |-> before, fetch |-> fetch, text |-> text, write |-> write,
     after |-> after, returned |-> returned]

NoText == [content |-> "", crlf |-> FALSE]

\* Mutant: the entry is read only when the site cannot be reached; otherwise
\* the page is fetched and written again.
LoadFromCache_Refreshes(url) ==
    /\ call.fn = "load_product_page_with_cache"
    /\ Len(loaded) < MaxLoads
    /\ cache_dir[_cache_key_for_url(url)] # None
    /\ \E text \in PageTexts :
          /\ ret' = Some(BeautifulSoup(text))
          /\ cache_dir' = [cache_dir EXCEPT ![_cache_key_for_url(url)] = Some(text)]
          /\ loaded' = Append(loaded, Loaded(url, cache_dir[_cache_key_for_url(url)], "ok", text,
                                             "written", Some(text), Some(BeautifulSoup(text))))
    /\ UNCHANGED <<call, retry, attempts, out_path, DATASET_PATH, lru_cache, guardVars, crawlVars>>

\* lines 426-433: the cache file of the URL exists: it is read and parsed
LoadFromCache(url) ==
    /\ call.fn = "load_product_page_with_cache"
    /\ Len(loaded) < MaxLoads
    /\ cache_dir[_cache_key_for_url(url)] # None
    /\ LET cache_file == cache_dir[_cache_key_for_url(url)]
           doc        == BeautifulSoup(read_text(cache_file[1]))
       IN  /\ ret' = Some(doc)
           /\ loaded' = Append(loaded, Loaded(url, cache_file, "none", NoText, "none",
                                              cache_file, Some(doc)))
    /\ UNCHANGED <<call, cache_dir, retry, attempts, out_path,
                   DATASET_PATH, lru_cache, guardVars, crawlVars>>

\* lines 435-442: no cache file; the request fails or answers an error
\* status: the call raises
LoadFetchFails(url, failure) ==
    /\ call.fn = "load_product_page_with_cache"
    /\ Len(loaded) < MaxLoads
    /\ cache_dir[_cache_key_for_url(url)] = None
    /\ ret' = None
    /\ loaded' = Append(loaded, Loaded(url, None, failure, NoText, "none", None, None))
    /\ UNCHANGED <<call, cache_dir, retry, attempts, out_path,
                   DATASET_PATH, lru_cache, guardVars, crawlVars>>

\* lines 435-448: no cache file; the page is fetched, written to the cache
\* (a failure of the write is logged) and parsed
LoadFetches(url, text, outcome) ==
    /\ call.fn = "load_product_page_with_cache"
    /\ Len(loaded) < MaxLoads
    /\ cache_dir[_cache_key_for_url(url)] = None
    /\ LET cache_file == write_text(text, outcome)
           doc        == BeautifulSoup(text)
       IN  /\ cache_dir' = [cache_dir EXCEPT ![_cache_key_for_url(url)] = cache_file]
           /\ ret' = Some(doc)
           /\ loaded' = Append(loaded, Loaded(url, None, "ok", text, outcome, cache_file, Some(doc)))
    /\ UNCHANGED <<call, retry, attempts, out_path, DATASET_PATH, lru_cache, guardVars, crawlVars>>

\* The cache directory is empty and product pages are about to be loaded.
InitCache ==
    /\ GuardInit
    /\ CrawlIdle
    /\ call = [fn |-> "load_product_page_with_cache"]
    /\ ret = None
    /\ cache_dir = [k \in {_cache_key_for_url(u) : u \in Urls} |-> None]
    /\ loaded = << >>
    /\ retry = << >>
    /\ attempts = << >>
    /\ out_path = << >>
    /\ DATASET_PATH = << >>
    /\ lru_cache = << >>

NextCache ==
    \/ \E url \in Urls : LoadFromCache(url)
    \/ \E url \in Urls, failure \in FetchFailures : LoadFetchFails(url, failure)
    \/ \E url \in Urls, text \in PageTexts, outcome \in WriteOutcomes : LoadFetches(url, text, outcome)

-----------------------------------------------------------------------------
(* scripts/scrapper_lib.py: load_page on a session of create_session.  The    *)
(* session sends through HTTPAdapter(max_retries=retry): urllib3 sends the    *)
(* request, and after a failure asks the Retry object whether to send again.  *)

\* line 266: retries: int = 3
DefaultRetries == 3

\* line 268: status_forcelist
status_forcelist == {500, 502, 503, 504}

\* The statuses the site answers with.
Statuses == {200, 404} \cup status_forcelist

\* The requests that end without a response.
Failures == {"connect", "read"}

\* lines 283-292: Retry(total=retries, connect=retries, read=retries, status=retries, ...)
Retry(retries) == [total |-> retries, connect |-> retries, read |-> retries, status |-> retries]

\* Retry.increment: total and the counter of the cause are decreased by one
increment(r, cause) == [r EXCEPT !.total = @ - 1, ![cause] = @ - 1]

\* Retry.is_exhausted: a counter is below zero
is_exhausted(r) == \E c \in {"total", "connect", "read", "status"} : r[c] < 0

\* Mutant: every error status is retried.
is_retry_AnyError(status) == status >= 400

\* Retry.is_retry: GET is in allowed_methods, the status is in status_forcelist
is_retry(status) == status \in status_forcelist

\* line 318: the request ends without response (connection failure, read
\* timeout); urllib3 sends it again unless the Retry object is exhausted,
\* and then session.get raises
RequestFails(cause) ==
    /\ call.fn = "load_page"
    /\ ret = None
    /\ attempts' = Append(attempts, [failure |-> cause, status |-> 0])
    /\ IF is_exhausted(increment(retry, cause))
       THEN ret' = Some("ConnectionError") /\ UNCHANGED retry
       ELSE retry' = increment(retry, cause) /\ UNCHANGED ret
    /\ UNCHANGED <<call, cache_dir, loaded, out_path,
                   DATASET_PATH, lru_cache, guardVars, crawlVars>>

\* lines 318-327: the request is answered; a status to retry makes urllib3
\* send again unless the Retry object is exhausted, and then the response is
\* returned as it is (raise_on_status=False); raise_for_status raises for an
\* error status
RequestAnswered(status) ==
    /\ call.fn = "load_page"
    /\ ret = None
    /\ attempts' = Append(attempts, [failure |-> "none", status |-> status])
    /\ IF is_retry(status) /\ ~is_exhausted(increment(retry, "status"))
       THEN retry' = increment(retry, "status") /\ UNCHANGED ret
       ELSE ret' = Some(IF status >= 400 THEN "HTTPError" ELSE "BeautifulSoup") /\ UNCHANGED retry
    /\ UNCHANGED <<call, cache_dir, loaded, out_path,
                   DATASET_PATH, lru_cache, guardVars, crawlVars>>

\* load_page is called on a session of create_session()
InitFetch ==
    /\ GuardInit
    /\ CrawlIdle
    /\ call = [fn |-> "load_page"]
    /\ ret = None
    /\ cache_dir = << >>
    /\ loaded = << >>
    /\ retry = Retry(DefaultRetries)
    /\ attempts = << >>
    /\ out_path = << >>
    /\ DATASET_PATH = << >>
    /\ lru_cache = << >>

NextFetch ==
    \/ \E cause \in Failures : RequestFails(cause)
    \/ \E status \in Statuses : RequestAnswered(status)

-----------------------------------------------------------------------------
(* scripts/scrapper_lib.py: extract_rating_from_tag.                          *)
(*                                                                            *)
(* A card is the sequence of its <p> elements, in document order; a <p>       *)
(* element is the sequence of the classes of its class attribute.             *)

\* The <p> elements of one card.
MaxP == 2

\* lines 94-100
RATING_MAP == [One |-> 1, Two |-> 2, Three |-> 3, Four |-> 4, Five |-> 5]

\* The keys of RATING_MAP, in the order of the dict.
RatingNames == <<"One", "Two", "Three", "Four", "Five">>

\* The class attributes a <p> of a card may have.
ClassLists ==
    {<< >>,
     <<"price_color">>,
     <<"star-rating">>,
     <<"star-rating", "One">>,
     <<"star-rating", "Five">>,
     <<"star-rating", "five">>,
     <<"star-rating", "Five", "One">>,
     <<"star-rating", "x", "Two">>,
     <<"Three", "star-rating">>,
     <<"Four">>}

Cards == UNION {[1..n -> ClassLists] : n \in 0..MaxP}

\* bs4's match of a class_ filter against the class attribute of a tag: one of
\* the classes is the wanted string, or the attribute as a whole is.
MatchesClass(classes, wanted) ==
    \/ \E k \in 1..Len(classes) : <<classes[k]>> = wanted
    \/ classes # << >> /\ classes = wanted

\* book_soup.find("p", class_=...): the position of the first <p> that
\* matches, 0 if there is none.
find(book_soup, wanted) ==
    LET hits == {i \in 1..Len(book_soup) : MatchesClass(book_soup[i], wanted)}
    IN  IF hits = {} THEN 0 ELSE CHOOSE i \in hits : \A j \in hits : i <= j

RECURSIVE FirstMapped(_, _)
\* lines 229-231: for cls in classes: if cls in RATING_MAP: return RATING_MAP[cls]
FirstMapped(classes, k) ==
    IF k > Len(classes) THEN None
    ELSE IF classes[k] \in DOMAIN RATING_MAP THEN Some(RATING_MAP[classes[k]])
    ELSE FirstMapped(classes, k + 1)

RECURSIVE FirstNamed(_, _)
\* lines 232-234: for name, val in RATING_MAP.items():
\*                    if book_soup.find("p", class_=f"star-rating {name}"): return val
FirstNamed(book_soup, k) ==
    IF k > Len(RatingNames) THEN None
    ELSE IF find(book_soup, <<"star-rating", RatingNames[k]>>) # 0
         THEN Some(RATING_MAP[RatingNames[k]])
    ELSE FirstNamed(book_soup, k + 1)

\* Mutant: without the second loop over RATING_MAP.
extract_rating_from_tag_NoFallback(book_soup) ==
    LET p == find(book_soup, <<"star-rating">>)
    IN  IF p # 0 THEN FirstMapped(book_soup[p], 1) ELSE None

\* lines 217-235
extract_rating_from_tag(book_soup) ==
    LET p     == find(book_soup, <<"star-rating">>)
        first == IF p # 0 THEN FirstMapped(book_soup[p], 1) ELSE None
    IN  IF first # None THEN first ELSE FirstNamed(book_soup, 1)

\* A call of extract_rating_from_tag returns.
ExtractRating ==
    /\ call.fn = "extract_rating_from_tag"
    /\ ret = None
    /\ ret' = Some(extract_rating_from_tag(call.arg))
    /\ UNCHANGED <<call, cache_dir, loaded, retry, attempts, out_path,
                   DATASET_PATH, lru_cache, guardVars, crawlVars>>

\* extract_rating_from_tag is called on a card
InitRating ==
    /\ GuardInit
    /\ CrawlIdle
    /\ call \in {[fn |-> "extract_rating_from_tag", arg |-> c] : c \in Cards}
    /\ ret = None
    /\ cache_dir = << >>
    /\ loaded = << >>
    /\ retry = << >>
    /\ attempts = << >>
    /\ out_path = << >>
    /\ DATASET_PATH = << >>
    /\ lru_cache = << >>

NextRating == ExtractRating

-----------------------------------------------------------------------------
(* scripts/scrapper_lib.py: save_books_to_csv_master, and the file read back  *)
(* with csv.DictReader.                                                       *)
(*                                                                            *)
(* The file is the sequence of its rows, a row the sequence of its fields:    *)
(* with QUOTE_ALL every field is written between quotes, so that the fields   *)
(* read back are the fields written.  A price is a number of hundredths.      *)

\* The records of one call.
MaxRows == 2

\* Mutant: the file has the eight columns of the records only.
fieldnames_RecordColumns ==
    <<"title", "price", "rating", "category", "image", "product_page", "availability", "stock">>

\* lines 644-654
fieldnames == <<"title", "price", "rating", "category", "image", "product_page",
                "availability", "stock", "image_base64">>

Digit(d) == <<"0", "1", "2", "3", "4", "5", "6", "7", "8", "9">>[d + 1]

RECURSIVE str(_)
\* str of a non-negative int
str(n) == IF n < 10 THEN Digit(n) ELSE str(n \div 10) \o Digit(n % 10)

\* repr of the float p / 100, which is how the csv writer writes a float
repr(p) ==
    str(p \div 100) \o "." \o
    (IF p % 10 = 0 THEN Digit((p % 100) \div 10)
     ELSE Digit((p % 100) \div 10) \o Digit(p % 10))

\* price, rating and stock of the records: None, zero, a value
Numbers ==
    {<<None, None, None>>, <<Some(0), Some(0), Some(0)>>, <<Some(5177), Some(3), Some(3)>>,
     <<None, Some(3), Some(0)>>, <<Some(0), None, Some(3)>>, <<Some(5170), Some(0), None>>}

\* The dict get_books makes for a card (lines 530-542; no key "image_base64"),
\* and the same with availability None.
BookRecords ==
    {[title |-> t, price |-> n[1], rating |-> n[2], category |-> Some("Travel"),
      image |-> None, product_page |-> Some("http://books/p_1/index.html"),
      availability |-> a, stock |-> n[3], image_base64 |-> None] :
        t \in {None, Some(""), Some("A")}, n \in Numbers,
        a \in {None, Some(TRUE), Some(FALSE)}}

\* Python's `x or ""` for an Optional[str]
OrEmpty(x) == IF x = None \/ x[1] = "" THEN "" ELSE x[1]

\* Mutant: price, rating and stock are written with `or ""`, as the text fields are.
row_Falsy(b) ==
    [title        |-> OrEmpty(b.title),
     price        |-> IF b.price = None \/ b.price[1] = 0 THEN "" ELSE repr(b.price[1]),
     rating       |-> IF b.rating = None \/ b.rating[1] = 0 THEN "" ELSE str(b.rating[1]),
     category     |-> OrEmpty(b.category),
     image        |-> OrEmpty(b.image),
     product_page |-> OrEmpty(b.product_page),
     availability |-> IF b.availability = None THEN ""
                      ELSE IF b.availability[1] THEN "yes" ELSE "no",
     stock        |-> IF b.stock = None \/ b.stock[1] = 0 THEN "" ELSE str(b.stock[1]),
     image_base64 |-> OrEmpty(b.image_base64)]

\* lines 676-686, each value as the csv writer writes it
row(b) ==
    [title        |-> OrEmpty(b.title),
     price        |-> IF b.price = None THEN "" ELSE repr(b.price[1]),
     rating       |-> IF b.rating = None THEN "" ELSE str(b.rating[1]),
     category     |-> OrEmpty(b.category),
     image        |-> OrEmpty(b.image),
     product_page |-> OrEmpty(b.product_page),
     availability |-> IF b.availability = None THEN ""
                      ELSE IF b.availability[1] THEN "yes" ELSE "no",
     stock        |-> IF b.stock = None THEN "" ELSE str(b.stock[1]),
     image_base64 |-> OrEmpty(b.image_base64)]

\* csv.DictWriter.writerow: the values of the dict in the order of fieldnames
writerow(rowdict) == [k \in 1..Len(fieldnames) |-> rowdict[fieldnames[k]]]

\* line 663
writeheader == fieldnames

\* lines 656-687: the header, then one row per book
SaveBooksToCsvMaster ==
    /\ call.fn = "save_books_to_csv_master"
    /\ out_path = None
    /\ out_path' = Some(<<writeheader>> \o [i \in 1..Len(call.books) |-> writerow(row(call.books[i]))])
    /\ UNCHANGED <<call, ret, cache_dir, loaded, retry, attempts,
                   DATASET_PATH, lru_cache, guardVars, crawlVars>>

\* csv.DictReader over the file: one dict per data row, keyed by the header
DictReader ==
    /\ call.fn = "save_books_to_csv_master"
    /\ out_path # None
    /\ ret = None
    /\ LET file   == out_path[1]
           header == file[1]
       IN  ret' = Some([i \in 1..(Len(file) - 1) |->
                          [name \in {header[k] : k \in 1..Len(header)} |->
                              LET k == CHOOSE j \in 1..Len(header) : header[j] = name
                              IN  IF k <= Len(file[i + 1]) THEN file[i + 1][k] ELSE ""]])
    /\ UNCHANGED <<call, cache_dir, loaded, retry, attempts, out_path,
                   DATASET_PATH, lru_cache, guardVars, crawlVars>>

\* save_books_to_csv_master is called on a list of records
InitCsv ==
    /\ GuardInit
    /\ CrawlIdle
    /\ call \in {[fn |-> "save_books_to_csv_master", books |-> bs] :
                    bs \in UNION {[1..n -> BookRecords] : n \in 0..MaxRows}}
    /\ ret = None
    /\ cache_dir = << >>
    /\ loaded = << >>
    /\ retry = << >>
    /\ attempts = << >>
    /\ out_path = << >>
    /\ DATASET_PATH = << >>
    /\ lru_cache = << >>

NextCsv == SaveBooksToCsvMaster \/ DictReader

-----------------------------------------------------------------------------
(* scripts/ml_data.py: get_training_split.                                    *)
(*                                                                            *)
(* A ratio is a fraction <<numerator, denominator>>; the rows of the features *)
(* dataset are numbered from 1 in the order of the file.                      *)

\* The rows of the features dataset.
MaxDataset == 4

Ratios == {<<-1, 2>>, <<0, 1>>, <<1, 10>>, <<1, 2>>, <<7, 10>>, <<9, 10>>, <<1, 1>>, <<3, 2>>}

Max(a, b) == IF a >= b THEN a ELSE b

\* math.floor(total_rows * ratio) for a ratio not below 0
floor(total_rows, ratio) == (total_rows * ratio[1]) \div ratio[2]

Permutations(n) == {p \in [1..n -> 1..n] : \A i, j \in 1..n : p[i] = p[j] => i = j}

\* Mutant: without the floor of one row.
train_rows_NoMinimum(total_rows, ratio) == Min(floor(total_rows, ratio), total_rows)

\* lines 64-65
train_rows(total_rows, ratio) == Min(Max(1, floor(total_rows, ratio)), total_rows)

Returned(train, test) == [raised |-> "", train |-> train, test |-> test]

\* lines 53-54: not 0 < ratio < 1
SplitRaises ==
    /\ call.fn = "get_training_split"
    /\ ret = None
    /\ ~(0 < call.ratio[1] /\ call.ratio[1] < call.ratio[2])
    /\ ret' = Some([raised |-> "ValueError", train |-> << >>, test |-> << >>])
    /\ UNCHANGED <<call, cache_dir, loaded, retry, attempts, out_path,
                   DATASET_PATH, lru_cache, guardVars, crawlVars>>

\* lines 56-59: the dataset has no row
SplitEmpty ==
    /\ call.fn = "get_training_split"
    /\ ret = None
    /\ 0 < call.ratio[1] /\ call.ratio[1] < call.ratio[2]
    /\ call.total_rows = 0
    /\ ret' = Some(Returned(<< >>, << >>))
    /\ UNCHANGED <<call, cache_dir, loaded, retry, attempts, out_path,
                   DATASET_PATH, lru_cache, guardVars, crawlVars>>

\* lines 61-69: df.sample(fraction=1.0, shuffle=True, seed=seed) puts the rows
\* in the order `shuffled` (the order of the file when there is one row);
\* head(train_rows) and slice(train_rows)
SplitRows(shuffled) ==
    /\ call.fn = "get_training_split"
    /\ ret = None
    /\ 0 < call.ratio[1] /\ call.ratio[1] < call.ratio[2]
    /\ call.total_rows > 0
    /\ call.total_rows = 1 => shuffled = <<1>>
    /\ LET n == train_rows(call.total_rows, call.ratio)
       IN  ret' = Some(Returned(SubSeq(shuffled, 1, n), SubSeq(shuffled, n + 1, call.total_rows)))
    /\ UNCHANGED <<call, cache_dir, loaded, retry, attempts, out_path,
                   DATASET_PATH, lru_cache, guardVars, crawlVars>>

\* get_training_split is called on a dataset of total_rows rows
InitSplit ==
    /\ GuardInit
    /\ CrawlIdle
    /\ call \in {[fn |-> "get_training_split", ratio |-> r, seed |-> s, total_rows |-> n] :
                    r \in Ratios, s \in {None, Some(42)}, n \in 0..MaxDataset}
    /\ ret = None
    /\ cache_dir = << >>
    /\ loaded = << >>
    /\ retry = << >>
    /\ attempts = << >>
    /\ out_path = << >>
    /\ DATASET_PATH = << >>
    /\ lru_cache = << >>

NextSplit ==
    \/ SplitRaises
    \/ SplitEmpty
    \/ \E shuffled \in Permutations(call.total_rows) : SplitRows(shuffled)

-----------------------------------------------------------------------------
(* scripts/book_statistics.py: get_books_in_price_range, and its route        *)
(* routes/public/insights.py: books_by_price_range.                           *)
(*                                                                            *)
(* The processed dataset is what the cleaning pipeline writes: every row has  *)
(* an id, its position here, and a price above zero.                          *)

\* The rows of the processed dataset.
MaxProcessed == 3

Prices == {10, 20, 30}

PriceBounds == {-1, 0, 10, 20, 25, 40}

Datasets == UNION {[1..n -> Prices] : n \in 0..MaxProcessed}

\* Mutant: the bounds are exclusive.
in_range_Exclusive(price, min_price, max_price) == price > min_price /\ price < max_price

\* line 153: (pl.col("price") >= min_price) & (pl.col("price") <= max_price)
in_range(price, min_price, max_price) == price >= min_price /\ price <= max_price

\* line 153: df.filter: the rows kept, in the order of the dataset
filter(df, min_price, max_price) ==
    SelectSeq([i \in 1..Len(df) |-> [id |-> i, price |-> df[i]]],
              LAMBDA b : in_range(b.price, min_price, max_price))

\* line 154: .sort("price"): an order of the rows by ascending price; rows
\* of the same price come in the order the sort leaves them in
IsSortOf(sorted, rows) ==
    /\ Len(sorted) = Len(rows)
    /\ \E p \in Permutations(Len(rows)) : sorted = [i \in 1..Len(rows) |-> rows[p[i]]]
    /\ \A i \in 1..(Len(sorted) - 1) : sorted[i].price <= sorted[i + 1].price

Answer(raised, status, items) == [raised |-> raised, status |-> status, books |-> items]

\* lines 144-148
Rejected(min_price, max_price) == min_price < 0 \/ max_price < 0 \/ min_price > max_price

\* lines 144-148: get_books_in_price_range raises ValueError
PriceRangeRaises ==
    /\ call.fn = "get_books_in_price_range"
    /\ ret = None
    /\ Rejected(call.min, call.max)
    /\ ret' = Some(Answer("ValueError", 0, << >>))
    /\ UNCHANGED <<call, cache_dir, loaded, retry, attempts, out_path,
                   DATASET_PATH, lru_cache, guardVars, crawlVars>>

\* lines 150-172: get_books_in_price_range returns the books
PriceRangeReturns(sorted) ==
    /\ call.fn = "get_books_in_price_range"
    /\ ret = None
    /\ ~Rejected(call.min, call.max)
    /\ IsSortOf(sorted, filter(call.df, call.min, call.max))
    /\ ret' = Some(Answer("", 0, sorted))
    /\ UNCHANGED <<call, cache_dir, loaded, retry, attempts, out_path,
                   DATASET_PATH, lru_cache, guardVars, crawlVars>>

\* insights.py lines 44-45: Query(..., ge=0.0): FastAPI answers 422 before the
\* handler runs
RouteValidates ==
    /\ call.fn = "books_by_price_range"
    /\ ret = None
    /\ call.min < 0 \/ call.max < 0
    /\ ret' = Some(Answer("", 422, << >>))
    /\ UNCHANGED <<call, cache_dir, loaded, retry, attempts, out_path,
                   DATASET_PATH, lru_cache, guardVars, crawlVars>>

\* insights.py lines 48-49
RouteRejects ==
    /\ call.fn = "books_by_price_range"
    /\ ret = None
    /\ call.min >= 0 /\ call.max >= 0
    /\ call.min > call.max
    /\ ret' = Some(Answer("", 400, << >>))
    /\ UNCHANGED <<call, cache_dir, loaded, retry, attempts, out_path,
                   DATASET_PATH, lru_cache, guardVars, crawlVars>>

\* insights.py lines 51-56: the handler calls get_books_in_price_range
RouteReturns(sorted) ==
    /\ call.fn = "books_by_price_range"
    /\ ret = None
    /\ call.min >= 0 /\ call.max >= 0
    /\ call.min <= call.max
    /\ IsSortOf(sorted, filter(call.df, call.min, call.max))
    /\ ret' = Some(Answer("", 200, sorted))
    /\ UNCHANGED <<call, cache_dir, loaded, retry, attempts, out_path,
                   DATASET_PATH, lru_cache, guardVars, crawlVars>>

\* The function is called, or the route requested, on a processed dataset
InitPriceRange ==
    /\ GuardInit
    /\ CrawlIdle
    /\ call \in {[fn |-> f, min |-> lo, max |-> hi, df |-> df] :
                    f \in {"get_books_in_price_range", "books_by_price_range"},
                    lo \in PriceBounds, hi \in PriceBounds, df \in Datasets}
    /\ ret = None
    /\ cache_dir = << >>
    /\ loaded = << >>
    /\ retry = << >>
    /\ attempts = << >>
    /\ out_path = << >>
    /\ DATASET_PATH = << >>
    /\ lru_cache = << >>

\* The rows a call may return, in every order
Sorted ==
    LET rows == filter(call.df, call.min, call.max)
    IN  {[i \in 1..Len(rows) |-> rows[p[i]]] : p \in Permutations(Len(rows))}

NextPriceRange ==
    \/ PriceRangeRaises
    \/ \E sorted \in Sorted : PriceRangeReturns(sorted)
    \/ RouteValidates
    \/ RouteRejects
    \/ \E sorted \in Sorted : RouteReturns(sorted)

-----------------------------------------------------------------------------
(* scripts/book_statistics.py: the statistics operations on the processed     *)
(* dataset, and scripts/data_cleaning.py: the pipeline run that writes it.    *)
(*                                                                            *)
(* A row of the dataset is a book: its price, rating and category; a dataset  *)
(* has no two books of the same price.                                        *)

Books == {[price |-> 10, rating |-> 5, category |-> "Fiction"],
          [price |-> 20, rating |-> 3, category |-> "Fiction"],
          [price |-> 30, rating |-> 5, category |-> "Travel"]}

ProcessedDatasets ==
    UNION {{df \in [1..n -> Books] : \A i, j \in 1..n : df[i] = df[j] => i = j} :
              n \in 0..MaxProcessed}

StatOps == {"get_overview_statistics", "get_category_statistics", "get_top_rated_books",
            "get_books_in_price_range"}

RECURSIVE SumPrices(_)
SumPrices(df) == IF df = << >> THEN 0 ELSE Head(df).price + SumPrices(Tail(df))

\* line 116: df.sort(["rating", "price"], descending=[True, True]), as the
\* positions of the rows in the order of the sort
SortByRatingPrice(df) ==
    CHOOSE p \in Permutations(Len(df)) :
        \A i, j \in 1..Len(df) :
            i < j => \/ df[p[i]].rating > df[p[j]].rating
                     \/ df[p[i]].rating = df[p[j]].rating /\ df[p[i]].price > df[p[j]].price

\* line 154: .sort("price")
SortByPrice(df) ==
    CHOOSE p \in Permutations(Len(df)) :
        \A i, j \in 1..Len(df) : i < j => df[p[i]].price < df[p[j]].price

\* lines 42-66; the mean price is the pair <<sum, count>>
get_overview_statistics(df) ==
    [total_books |-> Len(df),
     average_price |-> IF Len(df) = 0 THEN <<0, 1>> ELSE <<SumPrices(df), Len(df)>>,
     rating_distribution |->
        [r \in {df[i].rating : i \in 1..Len(df)} |->
            Cardinality({i \in 1..Len(df) : df[i].rating = r})]]

\* lines 69-105, as the set of the rows returned
get_category_statistics(df) ==
    {LET rows == SelectSeq(df, LAMBDA b : b.category = c)
     IN  [category |-> c, book_count |-> Len(rows),
          average_price |-> <<SumPrices(rows), Len(rows)>>,
          min_price |-> CHOOSE m \in {rows[i].price : i \in 1..Len(rows)} :
                            \A i \in 1..Len(rows) : m <= rows[i].price,
          max_price |-> CHOOSE m \in {rows[i].price : i \in 1..Len(rows)} :
                            \A i \in 1..Len(rows) : m >= rows[i].price] :
     c \in {df[i].category : i \in 1..Len(df)}}

\* lines 108-135: sort by rating, then price, both descending; head(limit)
get_top_rated_books(limit, df) ==
    LET p == SortByRatingPrice(df)
    IN  [i \in 1..Min(limit, Len(df)) |-> df[p[i]]]

\* lines 138-172
get_books_in_price_range(min_price, max_price, df) ==
    LET kept == SelectSeq(df, LAMBDA b : in_range(b.price, min_price, max_price))
        p    == SortByPrice(kept)
    IN  [i \in 1..Len(kept) |-> kept[p[i]]]

\* What an operation returns on a dataframe, with the arguments of the model:
\* the two best rated books, the books of 10 to 20.
Statistics(op, df) ==
    CASE op = "get_overview_statistics"  -> get_overview_statistics(df)
      [] op = "get_category_statistics"  -> get_category_statistics(df)
      [] op = "get_top_rated_books"      -> get_top_rated_books(2, df)
      [] op = "get_books_in_price_range" -> get_books_in_price_range(10, 20, df)

\* data_cleaning.py lines 273-278: a pipeline run writes the processed dataset
run_cleaning_pipeline(df) ==
    /\ call.fn \in StatOps \cup {"none"}
    /\ DATASET_PATH # Some(df)
    /\ DATASET_PATH' = Some(df)
    /\ UNCHANGED <<call, ret, cache_dir, loaded, retry, attempts, out_path, lru_cache,
                   guardVars, crawlVars>>

\* lines 12-16 and 39: the cache of _load_books_dataframe is empty and
\* there is no file: FileNotFoundError, which lru_cache does not keep
StatisticsFileMissing(op) ==
    /\ call.fn \in StatOps \cup {"none"}
    /\ lru_cache = None
    /\ DATASET_PATH = None
    /\ call' = [fn |-> op, file |-> DATASET_PATH]
    /\ ret' = Some([raised |-> "FileNotFoundError", value |-> << >>])
    /\ UNCHANGED <<cache_dir, loaded, retry, attempts, out_path, DATASET_PATH, lru_cache,
                   guardVars, crawlVars>>

\* lines 12-17 and 39: the cache is empty: the file is read and the dataframe kept
StatisticsLoads(op) ==
    /\ call.fn \in StatOps \cup {"none"}
    /\ lru_cache = None
    /\ DATASET_PATH # None
    /\ lru_cache' = DATASET_PATH
    /\ call' = [fn |-> op, file |-> DATASET_PATH]
    /\ ret' = Some([raised |-> "", value |-> Statistics(op, DATASET_PATH[1])])
    /\ UNCHANGED <<cache_dir, loaded, retry, attempts, out_path, DATASET_PATH,
                   guardVars, crawlVars>>

\* line 12, @lru_cache(maxsize=1): _load_books_dataframe has been called:
\* the dataframe of that call is returned, the file is not looked at
StatisticsFromCache(op) ==
    /\ call.fn \in StatOps \cup {"none"}
    /\ lru_cache # None
    /\ call' = [fn |-> op, file |-> DATASET_PATH]
    /\ ret' = Some([raised |-> "", value |-> Statistics(op, lru_cache[1])])
    /\ UNCHANGED <<cache_dir, loaded, retry, attempts, out_path, DATASET_PATH, lru_cache,
                   guardVars, crawlVars>>

\* The process starts: nothing is cached; the dataset is there or not.
InitStatistics ==
    /\ GuardInit
    /\ CrawlIdle
    /\ call = [fn |-> "none"]
    /\ ret = None
    /\ cache_dir = << >>
    /\ loaded = << >>
    /\ retry = << >>
    /\ attempts = << >>
    /\ out_path = << >>
    /\ DATASET_PATH \in {None} \cup {Some(df) : df \in ProcessedDatasets}
    /\ lru_cache = None

NextStatistics ==
    \/ \E df \in ProcessedDatasets : run_cleaning_pipeline(df)
    \/ \E op \in StatOps : StatisticsFileMissing(op)
    \/ \E op \in StatOps : StatisticsLoads(op)
    \/ \E op \in StatOps : StatisticsFromCache(op)

-----------------------------------------------------------------------------

Init == GuardInit /\ CrawlIdle /\ LibIdle

vars == <<guardVars, crawlVars, libVars>>

Spec == Init /\ [][Next]_vars

SpecNoLock == Init /\ [][NextNoLock]_vars

SpecScrape == Init /\ [][NextScrape]_vars

SpecCrawl == InitCrawl /\ [][NextCrawl]_vars

SpecBooks == InitBooks /\ [][NextBooks]_vars

SpecAvailability == InitAvailability /\ [][NextAvailability]_vars

SpecCache == InitCache /\ [][NextCache]_vars

SpecFetch == InitFetch /\ [][NextFetch]_vars

SpecRating == InitRating /\ [][NextRating]_vars

SpecCsv == InitCsv /\ [][NextCsv]_vars

SpecSplit == InitSplit /\ [][NextSplit]_vars

SpecPriceRange == InitPriceRange /\ [][NextPriceRange]_vars

SpecStatistics == InitStatistics /\ [][NextStatistics]_vars

-----------------------------------------------------------------------------
(* Job guard: what the properties speak of. *)

\* The runs of a job that were added and have not ended.
InFlight(job) == {t \in TaskIds : tasks[t].job = job /\ tasks[t].pc # "done"}

\* The runs of a job that have ended.
Ended(job) == {t \in TaskIds : tasks[t].job = job /\ tasks[t].pc = "done"}

\* The triggers of a route that passed the check and have not added their task yet.
Accepting(route) ==
    {r \in ReqIds : reqs[r].route = route
                    /\ reqs[r].pc \in {"set_running", "clear_result", "add_task"}}

\* The triggers of a route answered with `code`.
Answered(route, code) ==
    {r \in ReqIds : reqs[r].route = route /\ reqs[r].pc = "done" /\ reqs[r].resp.code = code}

TasksOf(r) == {t \in TaskIds : tasks[t].owner = r}

\* Request r leaves position pc of its handler in this step.
Leaves(r, route, pc) ==
    /\ reqs[r].route = route
    /\ reqs[r].pc = pc
    /\ reqs'[r].pc # pc

\* Task t of a job goes from position `from` to position `to` in this step.
Moves(t, job, from, to) ==
    /\ tasks[t].job = job
    /\ tasks[t].pc = from
    /\ tasks'[t].pc = to

-----------------------------------------------------------------------------
\* C1: at most one public scrape run is in flight at any time (from the
\* trigger that passed the check to the end of its background task), and as
\* long as no run has ended, exactly one of the triggers answered so far was
\* accepted (202) and every other got Conflict (409).
C1_SingleFlight ==
    /\ Cardinality(InFlight("pub")) + Cardinality(Accepting(PubTrigger)) <= 1
    /\ (Ended("pub") = {} /\ Answered(PubTrigger, 202) \cup Answered(PubTrigger, 409) # {})
          => Cardinality(Answered(PubTrigger, 202)) = 1

\* Two triggers were answered while the accepted run is still in flight: one 202, one 409.
C1_Witness ==
    /\ Answered(PubTrigger, 202) # {}
    /\ Answered(PubTrigger, 409) # {}
    /\ Ended("pub") = {}
    /\ \E t \in InFlight("pub") : tasks[t].pc = "running"

\* C2: a public trigger that finds is_running true is answered 409 and changes
\* nothing: is_running and last_result keep their values, no task is added,
\* and _lock is free again; taking _lock changes no job state either.
C2_ConflictNoEffect ==
    [][\A r \in ReqIds :
          /\ Leaves(r, PubTrigger, "pending")
                => /\ _scrapper_state' = _scrapper_state
                   /\ tasks' = tasks
          /\ (Leaves(r, PubTrigger, "check") /\ _scrapper_state.is_running)
                => /\ reqs'[r].pc = "done"
                   /\ reqs'[r].resp = TrigResp(409)
                   /\ _scrapper_state' = _scrapper_state
                   /\ tasks' = tasks
                   /\ _lock' = 0]_vars

\* A trigger was answered 409 while the run it met had already recorded its result.
C2_Witness ==
    /\ Answered(PubTrigger, 409) # {}
    /\ _scrapper_state.is_running
    /\ _scrapper_state.last_result # NoResult

\* C3: a public trigger that finds is_running false goes on to accept; every
\* trigger answered 202 has added exactly one task, of the public scrape job;
\* while that task has not started, is_running is true and last_result is
\* none; and no task starts before its handler has returned.
C3_Accepted ==
    /\ [](/\ \A r \in Answered(PubTrigger, 202) :
                /\ Cardinality(TasksOf(r)) = 1
                /\ \A t \in TasksOf(r) :
                      /\ tasks[t].job = "pub"
                      /\ tasks[t].pc = "scheduled"
                            => /\ _scrapper_state.is_running
                               /\ _scrapper_state.last_result = NoResult
          /\ \A t \in TaskIds :
                reqs[tasks[t].owner].pc # "done" => tasks[t].pc = "scheduled")
    /\ [][\A r \in ReqIds :
             (Leaves(r, PubTrigger, "check") /\ ~_scrapper_state.is_running)
                => reqs'[r].pc = "set_running"]_vars

\* A second trigger was accepted after a first run had ended with a result.
C3_Witness ==
    /\ Ended("pub") # {}
    /\ \E r \in Answered(PubTrigger, 202) :
          \E t \in TasksOf(r) : tasks[t].pc = "scheduled"

\* C4: when the background task of a public scrape run ends, is_running is
\* false and last_result is the outcome of that run: status "success" with
\* the summary when the scrape returned, status "error" with the message
\* when it raised.  Both ways lead to the finally clause: the task has no
\* other end.
C4_RunEnds ==
    [][\A t \in TaskIds :
          /\ Moves(t, "pub", "finally", "done")
                => /\ ~_scrapper_state'.is_running
                   /\ _scrapper_state'.last_result = tasks[t].outcome
                   /\ tasks[t].outcome.status \in {"success", "error"}
          /\ (tasks[t].job = "pub" /\ tasks[t].pc = "running" /\ tasks'[t].pc # "running")
                => /\ tasks'[t].pc = "finally"
                   /\ _scrapper_state'.last_result = tasks'[t].outcome
                   /\ _scrapper_state'.last_result # _scrapper_state.last_result]_vars

\* A run that raised has ended: the flag is clear and the error is the result.
C4_Witness ==
    /\ ~_scrapper_state.is_running
    /\ _scrapper_state.last_result.status = "error"
    /\ \E t \in Ended("pub") : tasks[t].outcome.status = "error"

\* C5: the flag is set only while a run is accepted and not ended, and a
\* public trigger is rejected exactly when it is checked while a run accepted
\* earlier has not ended: once the run has ended the next trigger is accepted.
C5_NeverStaysLocked ==
    /\ []((InFlight("pub") = {} /\ Accepting(PubTrigger) = {}) => ~_scrapper_state.is_running)
    /\ [][\A r \in ReqIds :
             Leaves(r, PubTrigger, "check")
                => (reqs'[r].resp = TrigResp(409) <=> InFlight("pub") # {})]_vars

\* A run has ended, with success or with an error, and a later trigger was accepted.
C5_Witness ==
    /\ \E t \in Ended("pub") : tasks[t].outcome.status = "error"
    /\ \E r \in Answered(PubTrigger, 202) : TasksOf(r) \cap InFlight("pub") # {}

\* C6: a step of a status handler, public or token-protected, changes neither
\* job state, takes no lock, adds no task and moves no task; the response
\* carries the values of is_running and last_result it read.
C6_StatusPureRead ==
    [][\A r \in ReqIds :
          /\ (Leaves(r, PubStatus, "pending") \/ Leaves(r, PubStatus, "read_result")
              \/ Leaves(r, PrivStatus, "pending") \/ Leaves(r, PrivStatus, "read_result"))
                => /\ _scrapper_state' = _scrapper_state
                   /\ scrapper_state' = scrapper_state
                   /\ _lock' = _lock
                   /\ tasks' = tasks
          /\ Leaves(r, PubStatus, "pending")
                => reqs'[r].resp.is_running = _scrapper_state.is_running
          /\ Leaves(r, PubStatus, "read_result")
                => reqs'[r].resp = StatusResp(reqs[r].resp.is_running, _scrapper_state.last_result)
          /\ Leaves(r, PrivStatus, "pending")
                => reqs'[r].resp.is_running = scrapper_state.is_running
          /\ Leaves(r, PrivStatus, "read_result")
                => reqs'[r].resp = StatusResp(reqs[r].resp.is_running, scrapper_state.last_result)]_vars

\* A status was read during a run, and another after a run had recorded its result.
C6_Witness ==
    /\ \E r \in ReqIds : /\ reqs[r].route = PubStatus
                         /\ reqs[r].resp = StatusResp(TRUE, NoResult)
    /\ \E r \in ReqIds : /\ reqs[r].route = PubStatus
                         /\ reqs[r].pc = "done"
                         /\ reqs[r].resp.last_result.status = "success"
    /\ _scrapper_state.last_result.status = "success"

\* C7: for the token-protected scrape job and for the ETL job, at most one run
\* is in flight at any time, and a handler that passed the check keeps the
\* event loop until it has set the flag and added its task: no other handler
\* runs between its check and its set.
C7_NoLockSingleFlight ==
    /\ Cardinality(InFlight("priv")) + Cardinality(Accepting(PrivTrigger)) <= 1
    /\ Cardinality(InFlight("etl")) + Cardinality(Accepting(EtlTrigger)) <= 1
    /\ \A r \in Accepting(PrivTrigger) \cup Accepting(EtlTrigger) : loop = r

\* Two triggers of one job were answered during one run, one 202 and one 409,
\* while a run of the other job is in flight.
C7_Witness ==
    \/ /\ Answered(PrivTrigger, 202) # {} /\ Answered(PrivTrigger, 409) # {}
       /\ InFlight("priv") # {} /\ InFlight("etl") # {}
       /\ Ended("priv") = {}
    \/ /\ Answered(EtlTrigger, 202) # {} /\ Answered(EtlTrigger, 409) # {}
       /\ InFlight("priv") # {} /\ InFlight("etl") # {}
       /\ Ended("etl") = {}


-----------------------------------------------------------------------------
(* The crawl: claims.                                                         *)

\* The loads of listing pages of category c, in the order they were made.
LoadsOf(c) == SelectSeq(log, LAMBDA e : e.op = "load_page" /\ e.cat = c)

\* The positions of results whose category crawl raised / returned.
RaisedCats == {i \in 1..Len(results) : produced[i].raised}

ReturnedCats == {i \in 1..Len(results) : ~produced[i].raised}

\* C8: in a full scrape run, a category whose crawl raises, on whatever
\* listing page, contributes no record, not even those parsed from its earlier
\* pages; the categories that returned keep exactly their records, whatever
\* happens to the others; a failing category never makes the run raise, so
\* every later category is crawled and, the loop over, the summary counts
\* every category and the records of those that returned.
C8_RaisedCategoryIsEmpty ==
    /\ Len(results) <= Len(produced)
    /\ \A i \in RaisedCats : results[i] = [cat |-> categories[i], books |-> << >>]
    /\ \A i \in ReturnedCats :
          /\ results[i] = [cat |-> categories[i], books |-> produced[i].books_data]
          /\ \A k \in 1..Len(results[i].books) :
                results[i].books[k].category[1][1] = categories[i]
    /\ cpc = "raised" => log[Len(log)].op \in {"get_categories", "write_csv"}
    /\ (cpc = "cat_loop" /\ idx > Len(categories)) =>
          /\ Len(results) = Len(categories)
          /\ \A i \in 1..Len(categories) : LoadsOf(categories[i]) # << >>
    /\ cpc = "done" =>
          /\ summary = Some([categories_count |-> Len(categories),
                             total_books |-> Len(Flatten(results)),
                             csv_master |-> save_master_csv])
          /\ save_master_csv => csv_master = Some(Flatten(results))

\* C8 witness: the run returned its summary; a category raised after records
\* had been parsed from its first page, and a later category has its records.
C8_Witness ==
    /\ cpc = "done"
    /\ \E i \in RaisedCats, j \in ReturnedCats :
          /\ i < j
          /\ produced[i].books_data # << >>
          /\ LoadsOf(categories[i])[Len(LoadsOf(categories[i]))].page > 1
          /\ results[j].books # << >>

\* C9: the listing pages of a category are loaded along the chain of "next"
\* links: the k-th load of a category is its k-th page, so each page is loaded
\* once and in order; a page is loaded only after one that loaded and has a
\* "next" link, so none is loaded after the first page without one; and a
\* category crawl that returned has loaded the chain to its last page, the
\* one without "next".
C9_PaginationStops ==
    \A c \in 1..MaxCats :
        LET loads == LoadsOf(c)
        IN  /\ \A k \in 1..Len(loads) : loads[k].page = k
            /\ \A k \in 1..(Len(loads) - 1) : loads[k].ok /\ loads[k].next
            /\ \A i \in 1..Len(produced) :
                  (categories[i] = c /\ ~produced[i].raised) =>
                      /\ loads # << >>
                      /\ loads[Len(loads)].ok
                      /\ ~loads[Len(loads)].next

\* C9 witness: a category of two pages returned, with a record from each page,
\* and the run went on.
C9_Witness ==
    \E i \in ReturnedCats :
        /\ Len(LoadsOf(categories[i])) = 2
        /\ Len(results[i].books) = 2
        /\ results[i].books[1].category[1][2] = 1
        /\ results[i].books[2].category[1][2] = 2

\* The listing thumbnail of the card served at position i of the category.
Thumbnail(i) == [kind |-> "thumb", of |-> served[i].card]

DetailFailed(i) == served[i].detail.load \in {"load_failed", "image_failed"}

\* C10 as stated: whenever loading or parsing the detail page of a product
\* failed, its record has availability = false, stock = None and the thumbnail.
C10_FailureGivesDefaults ==
    \A i \in 1..Len(books_data) :
        DetailFailed(i) =>
            /\ books_data[i].availability = FALSE
            /\ books_data[i].stock = None
            /\ books_data[i].image = Thumbnail(i)

\* C10, amended: a failure on the detail page of a product never aborts the
\* category crawl: the product yields a record and the crawl goes on to the
\* next card.  The record has the listing thumbnail.  It has availability =
\* false and stock = None when the failure came before the availability was
\* read; when it came after (resolving the detail image), it has the
\* availability and stock read from the page.  The records of the other
\* products are what their own detail pages give.
C10_DetailFailureContained ==
    /\ [](\A i \in 1..Len(books_data) :
            LET d == served[i].detail
                r == books_data[i]
            IN  /\ d.load \in {"none", "load_failed"} =>
                      r.availability = FALSE /\ r.stock = None /\ r.image = Thumbnail(i)
                /\ d.load = "image_failed" =>
                      r.availability = d.availability /\ r.stock = d.stock /\ r.image = Thumbnail(i)
                /\ d.load = "ok" =>
                      /\ r.availability = d.availability
                      /\ r.stock = d.stock
                      /\ r.image.kind = IF d.img THEN "detail" ELSE "thumb")
    /\ [][(/\ Len(served') = Len(served) + 1
            /\ served'[Len(served')].detail.load \in {"load_failed", "image_failed"})
            => /\ cpc' = "cards"
               /\ card' = card + 1
               /\ Len(books_data') = Len(served')
               /\ SubSeq(books_data', 1, Len(books_data)) = books_data]_vars

\* C10 witness: the category returned two records; the detail page of the
\* first product failed to load, the second product has what its page gives.
C10_Witness ==
    /\ cpc = "done"
    /\ Len(results) = 1
    /\ Len(results[1].books) = 2
    /\ served[1].detail.load = "load_failed"
    /\ results[1].books[1].availability = FALSE
    /\ served[2].detail = DetailOutcome("ok", InStock, TRUE)
    /\ results[1].books[2].availability = TRUE
    /\ results[1].books[2].stock = Some(3)
    /\ results[1].books[2].image.kind = "detail"

RECURSIVE CardsOn(_, _)
\* The cards of the listing pages loaded for category c, by page and position.
CardsOn(c, loads) ==
    IF loads = << >> THEN << >>
    ELSE LET last == loads[Len(loads)]
         IN  CardsOn(c, SubSeq(loads, 1, Len(loads) - 1)) \o [j \in 1..last.n |-> <<c, last.page, j>>]

\* C11: a category crawl that returned has one record per card of the pages it
\* loaded, in the order of the pages and of the cards on each page; the
\* record of a card has the heading of the card's page as category (None when
\* the page has no heading); the record of a card with a link of its own
\* whose detail page loaded has the availability and stock parsed from that page.
C11_OneRecordPerCard ==
    \A i \in ReturnedCats :
        i = Len(produced) =>
            LET c     == categories[i]
                loads == LoadsOf(c)
                cards == CardsOn(c, loads)
                recs  == results[i].books
            IN  /\ Len(recs) = Len(cards)
                /\ Len(served) = Len(cards)
                /\ \A k \in 1..Len(cards) :
                      /\ served[k].card = cards[k]
                      /\ served[k].kind \in {"a_nohref", "a_href"} => recs[k].title = Some(cards[k])
                      /\ recs[k].category =
                            IF loads[cards[k][2]].h1 THEN Some(<<c, cards[k][2]>>) ELSE None
                      /\ (served[k].kind = "a_href" /\ served[k].detail.load \in {"ok", "image_failed"}) =>
                            /\ recs[k].availability = served[k].detail.availability
                            /\ recs[k].stock = served[k].detail.stock

\* C11 witness: a category of two pages returned two records: the first is
\* the card of page 1, under the heading of page 1, in stock with 3 copies;
\* the second is the card of page 2, which has no heading, and whose detail
\* page has no availability.
C11_Witness ==
    /\ cpc = "done"
    /\ ReturnedCats = {1}
    /\ Len(LoadsOf(1)) = 2
    /\ Len(results[1].books) = 2
    /\ results[1].books[1].title = Some(<<1, 1, 1>>)
    /\ results[1].books[1].category = Some(<<1, 1>>)
    /\ results[1].books[1].availability /\ results[1].books[1].stock = Some(3)
    /\ results[1].books[2].title = Some(<<1, 2, 1>>)
    /\ results[1].books[2].category = None
    /\ served[2].detail = DetailOutcome("ok", NoAvailability, FALSE)
    /\ ~results[1].books[2].availability /\ results[1].books[2].stock = None

\* The requests for the site root (get_categories) made so far.
Discoveries == SelectSeq(log, LAMBDA e : e.op = "get_categories")

\* The loads of listing pages made so far, of any category, in order.
PageLoads == SelectSeq(log, LAMBDA e : e.op = "load_page")

\* C12: in one full scrape run the site root is requested for the categories
\* exactly once, before anything else; listing pages are loaded category by
\* category in discovery order (a category is the number of its position in
\* the discovery), never going back to an earlier category; results has the
\* categories in that order, and so the flattened output has the records of
\* each category together, the categories in discovery order.
C12_DiscoveryOrder ==
    /\ cpc # "start" => Len(Discoveries) = 1 /\ log[1].op = "get_categories"
    /\ \A a, b \in 1..Len(PageLoads) : a < b => PageLoads[a].cat <= PageLoads[b].cat
    /\ \A e \in 1..Len(PageLoads) : categories[PageLoads[e].cat] = PageLoads[e].cat
    /\ PageLoads # << >> => PageLoads[Len(PageLoads)].cat \in {idx, idx - 1}
    /\ \A i \in 1..Len(results) : results[i].cat = i /\ categories[i] = i
    /\ LET rows == Flatten(results)
       IN  /\ \A a, b \in 1..Len(rows) : a < b => rows[a].category[1][1] <= rows[b].category[1][1]
           /\ \A i \in 1..Len(results) :
                 SelectSeq(rows, LAMBDA r : r.category[1][1] = i) = results[i].books
           /\ (cpc = "done" /\ save_master_csv) => csv_master = Some(rows)

\* C12 witness: the run returned after two categories, each with a record;
\* the file has the record of the first category, then that of the second.
C12_Witness ==
    /\ cpc = "done"
    /\ Len(results) = 2
    /\ csv_master # None
    /\ Len(csv_master[1]) = 2
    /\ csv_master[1][1].category = Some(<<1, 1>>)
    /\ csv_master[1][2].category = Some(<<2, 1>>)

\* The writes of the master CSV attempted so far.
Writes == SelectSeq(log, LAMBDA e : e.op = "write_csv")

RECURSIVE SumOfCounts(_)
\* The sum of the numbers of records of the entries of results.
SumOfCounts(rs) == IF rs = << >> THEN 0 ELSE Len(Head(rs).books) + SumOfCounts(Tail(rs))

\* C13: the master CSV is written only when persistence is requested, at most
\* once, and only after the loop went over every category (the write is the
\* last request of the run); in a run that returned it was written exactly
\* once if requested, its rows are the flattened records, and
\* summary.total_books is the number of rows and the sum of the numbers of
\* records of the categories.
C13_CsvWrittenOnce ==
    /\ ~save_master_csv => Writes = << >> /\ csv_master = None
    /\ Len(Writes) <= 1
    /\ Writes # << >> =>
          /\ log[Len(log)].op = "write_csv"
          /\ Len(results) = Len(categories)
          /\ \A i \in 1..Len(categories) :
                Len(SelectSeq(log, LAMBDA e : e.op = "sleep_cat" /\ e.cat = categories[i])) = 1
    /\ csv_master # None => Len(Writes) = 1 /\ Writes[1].ok /\ cpc = "done"
    /\ cpc = "done" =>
          /\ save_master_csv => csv_master = Some(Flatten(results))
          /\ summary[1].total_books = SumOfCounts(results)
          /\ summary[1].total_books = Len(Flatten(results))
          /\ summary[1].csv_master = (csv_master # None)

\* C13 witness: a run with persistence returned; one category raised after a
\* record had been parsed, the other gave one record: the file has one row
\* and total_books is 1.
C13_Witness ==
    /\ cpc = "done"
    /\ save_master_csv
    /\ Len(Writes) = 1
    /\ RaisedCats # {} /\ ReturnedCats # {}
    /\ \E i \in RaisedCats : produced[i].books_data # << >>
    /\ Len(csv_master[1]) = 1
    /\ summary[1].total_books = 1

\* The number of categories the site root listed (the discovery being made).
Discovered == Discoveries[1].n

\* The categories of which a listing page was requested.
Crawled == {PageLoads[e].cat : e \in 1..Len(PageLoads)}

\* C14 as stated: with max_categories = K >= 0 and n categories discovered,
\* the run crawls the first min(K, n) categories, in discovery order, and no
\* other; with max_categories omitted it crawls all n.
C14_FirstKCategories ==
    (cpc \notin {"start", "raised"} /\ Discoveries[1].ok) =>
        LET limit == IF max_categories = None THEN Discovered ELSE Min(max_categories[1], Discovered)
        IN  /\ categories = [i \in 1..limit |-> i]
            /\ Crawled \subseteq 1..limit
            /\ (cpc = "cat_loop" /\ idx > Len(categories)) => Crawled = 1..limit

\* C14 witness: max_categories = 0, the site lists two categories, and listing
\* pages of both have been requested.
C14_Witness ==
    /\ max_categories = Some(0)
    /\ Discoveries # << >> /\ Discovered = 2
    /\ Crawled = {1, 2}
    /\ cpc = "done"

\* The positions of the log where a category crawl starts (its first page is requested).
CrawlStarts == {e \in 1..Len(log) : log[e].op = "load_page" /\ log[e].page = 1}

\* The inter-category delays made so far.
CategoryDelays == SelectSeq(log, LAMBDA e : e.op = "sleep_cat")

\* C15: the inter-category delay is made after each category, whether its
\* crawl returned or raised: the k-th delay follows the k-th category, a
\* category is in results only with its delay made, and between the starts of
\* two category crawls there is an inter-category delay.
C15_DelayBetweenCategories ==
    /\ \A a, b \in CrawlStarts :
          a < b => \E e \in (a + 1)..(b - 1) : log[e].op = "sleep_cat" /\ log[e].cat = log[a].cat
    /\ Len(CategoryDelays) = Len(results)
    /\ \A k \in 1..Len(CategoryDelays) : CategoryDelays[k].cat = categories[k]

\* C15 witness: the crawl of the first category raised, the delay was made,
\* and the crawl of the second category has started.
C15_Witness ==
    /\ Len(produced) >= 1
    /\ produced[1].raised
    /\ Cardinality(CrawlStarts) = 2
    /\ Len(CategoryDelays) = 1
    /\ cpc = "cards"

-----------------------------------------------------------------------------
(* The functions without side effect: claims.                                 *)

\* The text has "in stock", in whatever case.
SaysInStock(t) == \E i \in 1..Len(t) : t[i] \in {"In stock"}

\* The runs of digits of the text, as <<first, last>> positions: every piece
\* of a run is a digit, and no digit is next to it on either side.
DigitRuns(t) ==
    {r \in (1..Len(t)) \X (1..Len(t)) :
        /\ r[1] <= r[2]
        /\ \A x \in r[1]..r[2] : IsDigit(t[x])
        /\ r[1] > 1 => ~IsDigit(t[r[1] - 1])
        /\ r[2] < Len(t) => ~IsDigit(t[r[2] + 1])}

\* The runs of digits that make a parenthesized count "(N available)": "("
\* before, then blanks if any, the word and ")".
Counts(t) ==
    {r \in DigitRuns(t) :
        /\ r[1] > 1 /\ t[r[1] - 1] = "("
        /\ \E k \in (r[2] + 1)..(Len(t) - 1) :
              /\ \A x \in (r[2] + 1)..(k - 1) : t[x] = " "
              /\ t[k] \in {"Available"}
              /\ t[k + 1] = ")"}

\* The leftmost run of a non-empty set of runs.
Leftmost(R) == CHOOSE r \in R : \A q \in R : r[1] <= q[1]

NumberOf(t, r) == IntOf(SubSeq(t, r[1], r[2]))

\* C16: parse_availability_text, on every text: (a) with a parenthesized
\* count "(N available)" the result is (True, N), with or without "in
\* stock"; (b) else with a run of digits, stock is the first such number and
\* availability is the presence of "in stock", in whatever case; (c) else
\* stock is None and availability is the presence of "in stock".  A page
\* without the availability element gives (False, None).
C16_AvailabilityFallback ==
    ret # None =>
        LET t == call.arg.text
            r == ret[1]
        IN  IF ~call.arg.p THEN r = <<FALSE, None>>
            ELSE IF Counts(t) # {} THEN r = <<TRUE, Some(NumberOf(t, Leftmost(Counts(t))))>>
            ELSE IF DigitRuns(t) # {} THEN r = <<SaysInStock(t), Some(NumberOf(t, Leftmost(DigitRuns(t))))>>
            ELSE r = <<SaysInStock(t), None>>

\* C16 witness: "(30Available)", without "in stock", gives (True, 30).
C16_Witness ==
    /\ call.fn = "parse_availability_from_product_page"
    /\ call.arg = [p |-> TRUE, text |-> <<"(", "3", "0", "Available", ")">>]
    /\ ret = Some(<<TRUE, Some(30)>>)

-----------------------------------------------------------------------------
(* The cache of product pages: claims.                                        *)

\* The calls before the i-th that were for the same URL.
EarlierLoads(i) == {j \in 1..(i - 1) : loaded[j].url = loaded[i].url}

\* The calls before the i-th, for the same URL, that left an entry in the cache.
EarlierStores(i) == {j \in EarlierLoads(i) : loaded[j].after # None}

\* The text first stored for the URL of the i-th call, if one was before it.
StoredFirst(i) == loaded[First(EarlierStores(i))].after[1]

C18_FailedWriteLeavesNoEntry ==
    \A i \in 1..Len(loaded) :
        loaded[i].write \in {"not_created", "truncated"} =>
            /\ loaded[i].returned = Some(BeautifulSoup(loaded[i].text))
            /\ loaded[i].after = None
            /\ \A j \in (i + 1)..Len(loaded) :
                  (loaded[j].url = loaded[i].url /\ EarlierLoads(j) \cap (i + 1)..Len(loaded) = {})
                      => loaded[j].fetch # "none"

\* C18 witness: the write of the page of "u1" fails after the file was
\* created; the next call for "u1" makes no request and returns the
\* document of the truncated file.
C18_Witness ==
    /\ Len(loaded) >= 2
    /\ loaded[1].url = "u1" /\ loaded[1].write = "truncated"
    /\ loaded[1].text = [content |-> "a", crlf |-> FALSE]
    /\ loaded[1].returned = Some(BeautifulSoup(loaded[1].text))
    /\ loaded[2].url = "u1" /\ loaded[2].fetch = "none"
    /\ loaded[2].returned = Some(BeautifulSoup(Truncated(loaded[1].text)))

-----------------------------------------------------------------------------
(* The fetcher: claims.                                                       *)

\* The request ended in a way the retry policy covers.
Retryable(a) == a.failure \in Failures \/ a.status \in status_forcelist

-----------------------------------------------------------------------------
(* The crawl: the links of the records.                                       *)

\* The product page a card's own link leads to: the href of the anchor of the
\* card resolved against the URL of the card's page, without fragment; None
\* for a card with no anchor or no href.
OwnProductPage(i) == IF served[i].kind = "a_href" THEN Some(served[i].card) ELSE None

\* C20 as stated: the product_page of every record of a category crawl is
\* None or the absolute, fragment-free URL that the card's own link resolves
\* to from the URL of the listing page the card is on.
C20_OwnLinkResolved ==
    \A i \in 1..Len(books_data) : books_data[i].product_page \in {None, OwnProductPage(i)}

\* C20 witness: the first card of the category has a link; the card of the
\* second page has no <h3>, and its record has the product page of the first card.
C20_Witness ==
    /\ Len(books_data) = 2
    /\ served[1].kind = "a_href" /\ served[1].card = <<1, 1, 1>>
    /\ served[2].kind = "no_h3" /\ served[2].card = <<1, 2, 1>>
    /\ books_data[2].title = None
    /\ books_data[2].product_page = Some(<<1, 1, 1>>)

-----------------------------------------------------------------------------
(* The crawl: cards without the heading/anchor structure.                     *)

\* The cards of the category being crawled whose markup lacks the <h3><a>
\* structure.
Unstructured == {i \in 1..Len(served) : served[i].kind \in {"no_h3", "no_a"}}

\* C21 as stated: no card of a listing page makes the crawl raise (every card
\* served has its record), and a card without the heading/anchor structure,
\* the first card of a page included, yields a record with title None and
\* product_page None, never the link or the title of another card.
C21_MissingMarkupTolerated ==
    /\ Len(books_data) = Len(served)
    /\ \A i \in Unstructured :
          i <= Len(books_data) =>
              /\ books_data[i].title = None
              /\ books_data[i].product_page = None

\* C21 witness: the first card of the first page of a category has no <h3>:
\* the crawl of the category raised on it and the category has no record.
C21_Witness ==
    /\ Len(served) = 1
    /\ served[1] = [card |-> <<1, 1, 1>>, kind |-> "no_h3", detail |-> NotRequested]
    /\ books_data = << >>
    /\ produced # << >> /\ produced[Len(produced)].raised
    /\ cpc = "cat_append"

-----------------------------------------------------------------------------
(* extract_rating_from_tag: claims.                                           *)

\* The <p> elements of a card that carry the class star-rating.
StarElements(c) == {i \in 1..Len(c) : \E k \in 1..Len(c[i]) : c[i][k] = "star-rating"}

\* The positions of the recognized labels among the classes of one element.
LabelsAt(classes) == {k \in 1..Len(classes) : classes[k] \in DOMAIN RATING_MAP}

\* The recognized labels of the star-rating elements of a card: <<element, class>>.
StarLabels(c) == UNION {{<<i, k>> : k \in LabelsAt(c[i])} : i \in StarElements(c)}

\* The first of them in class order: by element, then by class within the element.
FirstLabel(c) ==
    CHOOSE l \in StarLabels(c) :
        \A m \in StarLabels(c) : l[1] < m[1] \/ (l[1] = m[1] /\ l[2] <= m[2])

\* C22 as stated: the rating of a card is None or an integer of 1..5; when
\* several recognized star labels are present on the card the first in class
\* order gives the rating; a card with no recognized label has rating None.
C22_FirstLabelWins ==
    (call.fn = "extract_rating_from_tag" /\ ret # None) =>
        LET c == call.arg
            r == ret[1]
        IN  /\ r \in {None} \cup {Some(n) : n \in 1..5}
            /\ StarLabels(c) = {} => r = None
            /\ Cardinality(StarLabels(c)) >= 2 =>
                  r = Some(RATING_MAP[c[FirstLabel(c)[1]][FirstLabel(c)[2]]])

\* C22: the rating of a card is None or an integer of 1..5, the labels One ..
\* Five standing for 1 .. 5.  It is read from the first <p> of the card that
\* carries the class star-rating: the first recognized label among the classes
\* of that element, in class order, gives the rating.  When that element has
\* no recognized label, the rating is the lowest one whose label L has a <p>
\* with the class attribute "star-rating L" exactly; with no such element, and
\* for a card without star-rating element, the rating is None.
C22_RatingOfFirstStarElement ==
    (call.fn = "extract_rating_from_tag" /\ ret # None) =>
        LET c     == call.arg
            r     == ret[1]
            stars == StarElements(c)
            p     == CHOOSE i \in stars : \A j \in stars : i <= j
            exact == {n \in 1..5 : \E i \in 1..Len(c) : c[i] = <<"star-rating", RatingNames[n]>>}
        IN  /\ r \in {None} \cup {Some(n) : n \in 1..5}
            /\ stars = {} => r = None
            /\ stars # {} =>
                  IF LabelsAt(c[p]) # {}
                  THEN \E k \in LabelsAt(c[p]) :
                          /\ \A j \in LabelsAt(c[p]) : k <= j
                          /\ r = Some(RATING_MAP[c[p][k]])
                  ELSE IF exact # {}
                       THEN \E n \in exact : (\A m \in exact : n <= m) /\ r = Some(n)
                       ELSE r = None

\* C22 witness: the first star-rating element of the card has no label, the
\* second is "star-rating Five": the rating is 5.
C22_Witness ==
    /\ call = [fn |-> "extract_rating_from_tag",
               arg |-> << <<"star-rating">>, <<"star-rating", "Five">> >>]
    /\ ret = Some(Some(5))

-----------------------------------------------------------------------------
(* save_books_to_csv_master: claims.                                          *)

\* The columns of the records, in the order of the specification.
RecordColumns ==
    <<"title", "price", "rating", "category", "image", "product_page", "availability", "stock">>

\* The data rows of the file written.
DataRows == Tail(out_path[1])

\* C23 as stated: the master CSV starts with a header row whose columns are
\* exactly title, price, rating, category, image, product_page, availability,
\* stock, in this order, and every data row has the same columns in the same order.
C23_EightColumns ==
    out_path # None =>
        /\ out_path[1][1] = RecordColumns
        /\ \A i \in 1..Len(DataRows) : Len(DataRows[i]) = Len(RecordColumns)

\* C23: the master CSV starts with a header row whose columns are title,
\* price, rating, category, image, product_page, availability, stock and, as
\* the ninth and last, image_base64, in this order; there is one data row
\* per record, in the order of the records, and every data row has these nine
\* columns in this order (category fourth, image fifth, product_page sixth,
\* availability seventh; image_base64 is empty for a record without that key).
C23_NineColumns ==
    out_path # None =>
        /\ out_path[1][1] = RecordColumns \o <<"image_base64">>
        /\ Len(DataRows) = Len(call.books)
        /\ \A i \in 1..Len(DataRows) :
              /\ Len(DataRows[i]) = 9
              /\ DataRows[i][4] = "Travel"
              /\ DataRows[i][5] = ""
              /\ DataRows[i][6] = "http://books/p_1/index.html"
              /\ DataRows[i][7] \in {"yes", "no", ""}
              /\ DataRows[i][9] = ""
        /\ ret # None =>
              \A i \in 1..Len(ret[1]) : DOMAIN ret[1][i] = {fieldnames[k] : k \in 1..9}

\* C23 witness: a file of two records was written and read back.
C23_Witness ==
    /\ out_path # None
    /\ Len(out_path[1]) = 3
    /\ out_path[1][2][1] = "A" /\ out_path[1][3][1] = ""
    /\ ret # None /\ Len(ret[1]) = 2

\* What the file holds for a price, a rating or stock, an availability, a title.
PriceTexts == {<<None, "">>, <<Some(0), "0.0">>, <<Some(5170), "51.7">>, <<Some(5177), "51.77">>}

CountTexts == {<<None, "">>, <<Some(0), "0">>, <<Some(3), "3">>}

AvailabilityTexts == {<<None, "">>, <<Some(TRUE), "yes">>, <<Some(FALSE), "no">>}

TitleTexts == {<<None, "">>, <<Some(""), "">>, <<Some("A"), "A">>}

\* The text tells the value.
Recovers(T) == \A p, q \in T : p[2] = q[2] => p[1] = q[1]

\* C24: for every record, price, rating and stock are written as the empty
\* string exactly when the field is None (0 is written as 0.0 for a price, as
\* 0 for rating and stock, not as empty); availability is written yes for
\* true, no for false and empty only for None; so the file read back has one
\* row per record, in order, from which each of these fields is recovered; a
\* title is read back as written, None as the empty string.
C24_RenderingKeepsFields ==
    (call.fn = "save_books_to_csv_master" /\ ret # None) =>
        /\ Len(ret[1]) = Len(call.books)
        /\ Recovers(PriceTexts) /\ Recovers(CountTexts) /\ Recovers(AvailabilityTexts)
        /\ \A i \in 1..Len(call.books) :
              LET b == call.books[i]
                  r == ret[1][i]
              IN  /\ <<b.price, r.price>> \in PriceTexts
                  /\ <<b.rating, r.rating>> \in CountTexts
                  /\ <<b.stock, r.stock>> \in CountTexts
                  /\ <<b.availability, r.availability>> \in AvailabilityTexts
                  /\ <<b.title, r.title>> \in TitleTexts
                  /\ (r.price = "") = (b.price = None)
                  /\ (r.rating = "") = (b.rating = None)
                  /\ (r.stock = "") = (b.stock = None)
                  /\ (r.availability = "") = (b.availability = None)

\* C24 witness: the first record has price 0, rating 0, stock 0 and is not
\* available, the second has none of these fields: the file read back has
\* 0.0, 0, 0, no for the first and four empty strings for the second.
C24_Witness ==
    /\ call.fn = "save_books_to_csv_master"
    /\ ret # None /\ Len(ret[1]) = 2
    /\ call.books[1].price = Some(0) /\ call.books[1].rating = Some(0)
    /\ call.books[1].stock = Some(0) /\ call.books[1].availability = Some(FALSE)
    /\ ret[1][1].price = "0.0" /\ ret[1][1].rating = "0" /\ ret[1][1].stock = "0"
    /\ ret[1][1].availability = "no"
    /\ call.books[2].price = None /\ call.books[2].availability = None
    /\ ret[1][2].price = "" /\ ret[1][2].rating = "" /\ ret[1][2].stock = ""
    /\ ret[1][2].availability = ""

-----------------------------------------------------------------------------
(* get_training_split: claims.                                                *)

Range(seq) == {seq[i] : i \in 1..Len(seq)}

\* C25: get_training_split(ratio, seed) with 0 < ratio < 1 on a dataset of n
\* rows returns train and test sets that partition the rows: no row is in
\* both, none is missing or repeated, train has max(1, floor(n * ratio)) rows
\* capped at n (0 when n = 0) and test the n - train others; a ratio outside
\* (0, 1) raises ValueError and returns nothing.
C25_SplitPartitions ==
    (call.fn = "get_training_split" /\ ret # None) =>
        LET n     == call.total_rows
            num   == call.ratio[1]
            den   == call.ratio[2]
            train == ret[1].train
            test  == ret[1].test
        IN  IF 0 < num /\ num < den
            THEN /\ ret[1].raised = ""
                 /\ Range(train) \cap Range(test) = {}
                 /\ Range(train) \cup Range(test) = 1..n
                 /\ Len(train) + Len(test) = n
                 /\ n = 0 => Len(train) = 0
                 /\ n > 0 =>
                       /\ 1 <= Len(train) /\ Len(train) <= n
                       /\ \A f \in 1..n :
                             (f * den <= n * num /\ n * num < (f + 1) * den) => Len(train) = f
                       /\ n * num < den => Len(train) = 1
            ELSE ret[1] = [raised |-> "ValueError", train |-> << >>, test |-> << >>]

\* C25 witness: three rows at ratio 1/10: floor(0.3) = 0, the train set still
\* has one row and the test set the two others.
C25_Witness ==
    /\ call.fn = "get_training_split"
    /\ call.total_rows = 3 /\ call.ratio = <<1, 10>>
    /\ ret # None
    /\ Len(ret[1].train) = 1 /\ Len(ret[1].test) = 2
    /\ ret[1].train[1] = 3

-----------------------------------------------------------------------------
(* get_books_in_price_range: claims.                                          *)

\* The books returned are exactly those of the dataset with min <= price <=
\* max, each once, by ascending price.
ExactlyInRange(items) ==
    /\ \A i \in 1..Len(call.df) :
          (call.min <= call.df[i] /\ call.df[i] <= call.max) <=>
              (\E k \in 1..Len(items) : items[k] = [id |-> i, price |-> call.df[i]])
    /\ \A k \in 1..Len(items) : items[k].id \in 1..Len(call.df)
    /\ \A j, k \in 1..Len(items) : items[j].id = items[k].id => j = k
    /\ \A j, k \in 1..Len(items) : j < k => items[j].price <= items[k].price

\* The function: the books in range, or ValueError and no book for min > max
\* or a negative bound.
PriceRangeContract ==
    (call.fn = "get_books_in_price_range" /\ ret # None) =>
        IF call.min > call.max \/ call.min < 0 \/ call.max < 0
        THEN ret[1] = Answer("ValueError", 0, << >>)
        ELSE ret[1].raised = "" /\ ExactlyInRange(ret[1].books)

-----------------------------------------------------------------------------
(* Job guard of the public scrape route: the result and the running flag.     *)

\* The status reads of the public scrape job that have been answered.
StatusReads == {r \in ReqIds : reqs[r].route = PubStatus /\ reqs[r].pc = "done"}

\* C27 as stated: in every reachable state of the scrape job guard,
\* is_running = true implies last_result = none, and no status read returns
\* is_running = true together with a result.
C27_ResultOnlyWhenIdle ==
    /\ _scrapper_state.is_running => _scrapper_state.last_result = NoResult
    /\ \A r \in StatusReads : reqs[r].resp.is_running => reqs[r].resp.last_result = NoResult

\* C27 witness: the task has recorded the success of its run and has not
\* reached its finally clause; a status read answered in between returned
\* is_running = true together with the result.
C27_Witness ==
    /\ _scrapper_state.is_running
    /\ _scrapper_state.last_result # NoResult
    /\ \E t \in TaskIds : tasks[t].job = "pub" /\ tasks[t].pc = "finally"
    /\ \E r \in StatusReads :
          /\ reqs[r].resp.is_running
          /\ reqs[r].resp.last_result = _scrapper_state.last_result
          /\ reqs[r].resp.last_result.status = "success"

-----------------------------------------------------------------------------
(* Job guard of the token-protected scrape route: the outcome of a run.       *)

\* The runs of the token-protected scrape job that have recorded their outcome.
PrivEnded == {t \in TaskIds : tasks[t].job = "priv" /\ tasks[t].pc \in {"finally", "done"}}

\* C28 as stated: on the token-protected scrape route, an accepted run whose
\* scrape meets no scraping error ends with last_result.status = "success" and
\* is_running = false; status "error" is recorded only when the scrape itself
\* failed.
C28_SuccessUnlessScrapeFailed ==
    \A t \in PrivEnded :
        \/ tasks[t].outcome.status = "success"
        \/ tasks[t].outcome.status = "error" /\ tasks[t].outcome.error \in ScrapeErrors

\* C28 witness: an accepted run has ended: no scrape was run, the result
\* recorded is the error of the call of trigger_scrap, the flag is cleared.
C28_Witness ==
    /\ \E t \in TaskIds :
          /\ tasks[t].job = "priv" /\ tasks[t].pc = "done"
          /\ reqs[tasks[t].owner].resp = TrigResp(202)
          /\ tasks[t].outcome = [status |-> "error", error |-> "TypeError"]
    /\ scrapper_state = [is_running |-> FALSE,
                         last_result |-> [status |-> "error", error |-> "TypeError"]]

-----------------------------------------------------------------------------
(* The product page cache: what the entries hold.                             *)

\* The loads whose request was answered with a status that passed the check.
Fetched == {i \in 1..Len(loaded) : loaded[i].fetch = "ok"}

\* The load of the same URL that follows load i, if there is one.
NextLoadOf(i) ==
    {j \in (i + 1)..Len(loaded) :
        /\ loaded[j].url = loaded[i].url
        /\ \A k \in (i + 1)..(j - 1) : loaded[k].url # loaded[i].url}

\* C29 as stated: a failed fetch is never cached: the cache changes only in a
\* load whose response passed the status check; every cache entry holds the
\* body of a successful response for exactly the URL whose hash names the
\* entry; a URL whose fetch failed is fetched from the network again on its
\* next load.
C29_EntriesAreFetchedBodies ==
    /\ \A i \in 1..Len(loaded) : loaded[i].after # loaded[i].before => i \in Fetched
    /\ \A url \in Urls :
          cache_dir[_cache_key_for_url(url)] # None =>
              \E i \in Fetched :
                  /\ loaded[i].url = url
                  /\ cache_dir[_cache_key_for_url(url)] = Some(loaded[i].text)
    /\ \A i \in 1..Len(loaded) :
          loaded[i].fetch \in FetchFailures =>
              /\ loaded[i].after = None
              /\ \A j \in NextLoadOf(i) : loaded[j].fetch # "none"

\* C29 witness: the fetch of "u2" failed and left no entry, the next load of
\* "u2" fetched the page "b" again, and the write failed after the file was
\* created: the entry of "u2" is not the body of the response.
C29_Witness ==
    /\ Len(loaded) = 2
    /\ loaded[1].url = "u2" /\ loaded[1].fetch = "HTTPError" /\ loaded[1].after = None
    /\ loaded[2].url = "u2" /\ loaded[2].fetch = "ok"
    /\ loaded[2].text = [content |-> "b", crlf |-> FALSE]
    /\ loaded[2].write = "truncated"
    /\ cache_dir[_cache_key_for_url("u2")] = Some(Truncated(loaded[2].text))
    /\ cache_dir[_cache_key_for_url("u2")] # Some(loaded[2].text)

-----------------------------------------------------------------------------
(* The statistics operations: claims.                                         *)

\* C30 as stated: a statistics operation (overview, category statistics,
\* top-rated, price range) called while the dataset file is there returns
\* the results computed from the contents the file has at the call, also
\* after the file has been replaced, not from those loaded by an earlier call.
C30_StatisticsFollowFile ==
    (call.fn \in StatOps /\ ret # None /\ call.file # None) =>
        ret[1] = [raised |-> "", value |-> Statistics(call.fn, call.file[1])]

\* C30 witness: the dataset had one book when a first call loaded it; a
\* pipeline run replaced it by a dataset of two books; the overview asked for
\* after that still counts one book.
C30_Witness ==
    /\ call.fn = "get_overview_statistics"
    /\ call.file = DATASET_PATH
    /\ DATASET_PATH # None /\ Len(DATASET_PATH[1]) = 2
    /\ lru_cache # None /\ Len(lru_cache[1]) = 1
    /\ ret # None /\ ret[1].raised = "" /\ ret[1].value.total_books = 1

=========================================================================
